---- MODULE Spec2Model ----
(***************************************************************************)
(* Road dashboard backend: the CSV load paths (server.js loadCSVData,      *)
(* database/migrate_data.js insertRoadData), the upload handler and the    *)
(* read endpoints of server.js, over a PostgreSQL table road_segments.     *)
(*                                                                         *)
(* The database is modelled as PostgreSQL behaves at its default isolation *)
(* level READ COMMITTED: a statement sees the rows committed when it       *)
(* starts; a DELETE waits for a concurrent transaction that has deleted    *)
(* one of the rows it wants and then skips the rows that are gone; rows    *)
(* inserted by a transaction appear to others at its COMMIT.               *)
(*                                                                         *)
(* Further sections model the import script and its PBFParser, the         *)
(* statistics endpoint served query by query, and the dashboard: Header,   *)
(* RoadDataProvider and MapComponent.                                      *)
(***************************************************************************)
EXTENDS Integers, Sequences, FiniteSets, TLC

\* ------------------------------------------------------------------ bounds

\* loadCSVData / migrateData invocations that may be in flight together
NumLoaders == 2
\* loads started in one behaviour
MaxLoads == 3

\* ------------------------------------------------------- CSV normalisation

\* A CSV cell that csv-parser does not deliver (the column is missing):
\* data.X is undefined.
Absent == "<undefined>"

\* parseFloat on the cells used below: the longest numeric prefix, NaN when
\* there is none.  A number is {n}, NaN is {}.
ParseFloat(s) ==
    CASE s = "41" -> {41}
      [] s = "40" -> {40}
      [] s = "-75" -> {0 - 75}
      [] s = "-76" -> {0 - 76}
      [] s = "0" -> {0}
      [] s = "0.0" -> {0}
      [] s = "7x" -> {7}
      [] s = "120" -> {120}
      [] s = "55" -> {55}
      [] s = "2010" -> {2010}
      [] s = "1999" -> {1999}
      [] s = "5000" -> {5000}
      [] s = "1" -> {1}
      [] s = "2" -> {2}
      [] s = "3" -> {3}
      [] s = "4" -> {4}
      [] s = "5" -> {5}
      [] s = "6" -> {6}
      [] s = "7" -> {7}
      [] OTHER -> {}

\* parseInt on the same cells (all of them integers, so the two agree here)
ParseInt(s) == ParseFloat(s)

\* JavaScript `n || d` for a parsed number: NaN and 0 are falsy
NumOr(p, d) == IF p = {} \/ p = {0} THEN d ELSE CHOOSE n \in p : TRUE

\* (the cell taken as it is, without || '')
StrOrKeepsUndefined(s) == s

\* JavaScript `s || ''` for a cell: undefined and '' are falsy
StrOr(s) == IF s = Absent \/ s = "" THEN "" ELSE s

\* parseInt(data.OBJECTID) || null : {} is null, {n} a number
ObjectId(s) == IF ParseInt(s) = {0} THEN {} ELSE ParseInt(s)

\* the cleanData object built from one CSV row (server.js and
\* migrate_data.js build it with the same expressions)
CleanData(data) ==
    [ objectid     |-> ObjectId(data.OBJECTID),
      district_no  |-> StrOr(data.DISTRICT_NO),
      fac_type     |-> StrOr(data.FAC_TYPE),
      surf_type    |-> StrOr(data.SURF_TYPE),
      rough_indx   |-> NumOr(ParseFloat(data.ROUGH_INDX), 0),
      cur_aadt     |-> NumOr(ParseInt(data.CUR_AADT), 0),
      x_value_bgn  |-> NumOr(ParseFloat(data.X_VALUE_BGN), 0),
      y_value_bgn  |-> NumOr(ParseFloat(data.Y_VALUE_BGN), 0),
      x_value_end  |-> NumOr(ParseFloat(data.X_VALUE_END), 0),
      y_value_end  |-> NumOr(ParseFloat(data.Y_VALUE_END), 0),
      segment_miles |-> NumOr(ParseFloat(data.SEGMENT_MILES), 0),
      iri_rating_text |-> StrOr(data.IRI_RATING_TEXT),
      surface_year |-> NumOr(ParseInt(data.SURFACE_YEAR), 0),
      urban_rural  |-> StrOr(data.URBAN_RURAL) ]

\* JavaScript truthiness of a number
Truthy(n) == n # 0

\* server.js: if (cleanData.x_value_bgn && cleanData.y_value_bgn)
ServerKeeps(c) == Truthy(c.x_value_bgn) /\ Truthy(c.y_value_bgn)

\* migrate_data.js: all four coordinates
MigrateKeeps(c) ==
    Truthy(c.x_value_bgn) /\ Truthy(c.y_value_bgn)
    /\ Truthy(c.x_value_end) /\ Truthy(c.y_value_end)

RECURSIVE MapClean(_)
MapClean(rows) ==
    IF rows = <<>> THEN <<>>
    ELSE <<CleanData(Head(rows))>> \o MapClean(Tail(rows))

\* processCSV of server.js: the kept rows, in file order
ServerProcessCSV(rows) == SelectSeq(MapClean(rows), ServerKeeps)

\* processCSV of migrate_data.js
MigrateProcessCSV(rows) == SelectSeq(MapClean(rows), MigrateKeeps)

ProcessCSV(kind, rows) ==
    IF kind = "server" THEN ServerProcessCSV(rows) ELSE MigrateProcessCSV(rows)

\* ------------------------------------------------------------- CSV files

Raw(oid, dist, fac, surf, rough, aadt, xb, yb, xe, ye, miles, iri, year, ur) ==
    [ OBJECTID |-> oid, DISTRICT_NO |-> dist, FAC_TYPE |-> fac,
      SURF_TYPE |-> surf, ROUGH_INDX |-> rough, CUR_AADT |-> aadt,
      X_VALUE_BGN |-> xb, Y_VALUE_BGN |-> yb,
      X_VALUE_END |-> xe, Y_VALUE_END |-> ye,
      SEGMENT_MILES |-> miles, IRI_RATING_TEXT |-> iri,
      SURFACE_YEAR |-> year, URBAN_RURAL |-> ur ]

\* The contents RMSSEG_(State_Roads).csv takes in the model: rows with four
\* good coordinates, with a zero or unparseable begin coordinate, with a
\* zero or unparseable end coordinate.
Files ==
    << << Raw("1", "01", "1", "52", "120", "5000", "-75", "40", "-76", "41", "2", "Good", "2010", "U"),
          Raw("2", "01", "2", "61", "55", "0", "-75", "41", "0", "41", "1", "Poor", "1999", "R"),
          Raw("3", "02", "1", "52", "", "5000", "0", "40", "-76", "41", "1", "Good", "", "U") >>,
       << Raw("4", "02", "2", "52", "55", "5000", "-76", "41", "-75", "40", "3", "Good", "1999", "R"),
          Raw("5", "02", "1", "61", "", "", "-76", "40", "-75", "abc", "", "", "2010", "U"),
          Raw("6", "01", "2", "61", "7x", "1", "abc", "41", "-75", "40", "1", "Poor", "2010", Absent) >>,
       << Raw("7", "01", "1", "52", "120", "2", "", "", "", "", "1", Absent, "", "") >> >>

NumFiles == Len(Files)

\* --------------------------------------------------------------- state

VARIABLES
    csvFile,    \* index in Files of RMSSEG_(State_Roads).csv on disk, 0: no file
    committed,  \* road_segments as committed: a set of [id, d]
    nextTxn,    \* loads started so far
    ld,         \* per invocation slot: the position and locals of a load
    hist,       \* the loads that committed, in commit order
    rolledBack, \* what the latest failed load's ROLLBACK undid ("lost": it rejected)
    lastRead,   \* what the latest read of road_segments returned
    matview,    \* road_statistics: the rows it was last refreshed from
    up,         \* the POST /api/upload request being served and its response
    osm,        \* osm_roads as committed
    resp,       \* the latest response of a GET endpoint
    pg,         \* a client fetching /api/roads page by page
    clients,    \* the number of pool clients bulk loads have checked out
    proc,       \* how the latest run of the PBF script or of the extraction ended
    norm,       \* a CSV given to both processCSV functions, and what they return
    pbf,        \* a run of import_pbf_node.js: its position and locals
    osmWays,    \* osm_ways as committed
    server,     \* the server.js process: "up", or "down" after an uncaught error
    stat,       \* a GET /api/statistics request served query by query
    hdr,        \* Header component state: heatmapType, showHeatmap
    mapc,       \* MapComponent: showHeatmap, the map instance, its view and layers
    ctx,        \* RoadDataProvider state: roads, heatmapData, loading, fetchRoads
    calls,      \* the handleHeatmapToggle invocations awaiting their fetch
    parser,     \* a PBFParser: buffer, position, the latest varint and block
    wt          \* a road given to getRoadWeight and the weight returned

loadVars == <<csvFile, nextTxn, ld, hist, rolledBack, lastRead, matview>>
queryVars == <<osm, resp, pg>>
scriptVars == <<norm, pbf, osmWays>>
uiVars == <<hdr, mapc, ctx, calls>>
extraVars == <<server, stat, uiVars, parser, wt>>
vars == <<committed, loadVars, up, queryVars, clients, proc, scriptVars, extraVars>>

Loaders == 1..NumLoaders

\* batchSize of loadCSVData and insertRoadData
batchSize == 1000

IdleLd ==
    [ pc |-> "idle", kind |-> "server", txn |-> 0, file |-> 0, data |-> <<>>,
      i |-> 0, j |-> 1, snap |-> {}, del |-> {}, ins |-> {} ]

\* a row of road_segments: id stands for the SERIAL primary key (unique per
\* inserted row: the inserting load and the row's position in it)
TableRow(txn, k, c) == [id |-> <<txn, k>>, d |-> c]

RECURSIVE RowsOf(_, _, _)
RowsOf(txn, data, k) ==
    IF k > Len(data) THEN {}
    ELSE {TableRow(txn, k, data[k])} \cup RowsOf(txn, data, k + 1)

Ids(table) == {r.id : r \in table}

\* the loads whose transaction is open
TxnOpen(l) == ld[l].pc \in {"delete", "deleting", "insert", "commit", "rollback"}

InFlight(l) == ld[l].pc # "idle"

\* a bulk load holds a client from pool.connect() until its finally block
HoldsClient(l) ==
    ld[l].pc \in {"begin", "delete", "deleting", "insert", "commit", "rollback",
                  "committed", "rolled back", "rollback failed"}

Min(a, b) == IF a < b THEN a ELSE b

\* data.slice(i, i + batchSize)
Batch(data, i) == SubSeq(data, i + 1, Min(i + batchSize, Len(data)))

\* where the two nested for loops stand after the row at (i, j) is done:
\* the next row of the batch, the next batch, or past the loops
LoopNext(data, i, j) ==
    IF j < Len(Batch(data, i)) THEN [pc |-> "insert", i |-> i, j |-> j + 1]
    ELSE IF i + batchSize < Len(data) THEN [pc |-> "insert", i |-> i + batchSize, j |-> 1]
    ELSE [pc |-> "commit", i |-> i + batchSize, j |-> 1]

\* where they stand when first entered
LoopEnter(data) ==
    IF 0 < Len(data) THEN [pc |-> "insert", i |-> 0, j |-> 1]
    ELSE [pc |-> "commit", i |-> 0, j |-> 1]

SeqToSet(q) == {q[k] : k \in 1..Len(q)}

\* no query answered yet
NoResp == [ep |-> "none", q |-> <<>>, status |-> 0, rows |-> <<>>, error |-> "", db |-> "", sent |-> 0]

\* no paging client yet
NoPaging == [on |-> FALSE, q |-> <<>>, limit |-> 0, pages |-> <<>>, done |-> FALSE]

\* no upload request yet
IdleUp ==
    [ pc |-> "idle", file |-> 0, tmp |-> FALSE, data |-> <<>>,
      status |-> 0, body |-> "" ]

\* (client.release() as the last statement of the try block instead of a
\* finally block)
ReleaseClientInTryOnly(out, path) == IF path = "committed" THEN out - 1 ELSE out

\* finally { client.release(); } reached on the given path (after COMMIT,
\* after a ROLLBACK that resolved, after a ROLLBACK that rejected): one
\* client fewer is checked out
ReleaseClient(out, path) == out - 1

\* no ingestion script has run
NoProc == [script |-> "none", status |-> 0, failed |-> FALSE, success |-> FALSE]

\* the script's top-level catch: console.error(...); process.exit(1)
ScriptFailed(script) ==
    [script |-> script, status |-> 1, failed |-> TRUE, success |-> FALSE]

\* the script's try block runs to its end: the success line is logged and
\* the process ends with status 0.  failed: whether the run had met a
\* missing input or a database error on the way.
ScriptCompleted(script, failed) ==
    [script |-> script, status |-> 0, failed |-> failed, success |-> TRUE]

\* where a load that failed leaves its process: loadCSVData's outer catch
\* logs the error and the server goes on; migrateData's catch calls
\* process.exit(1)
AfterFailure(kind) ==
    IF kind = "migrate" THEN [IdleLd EXCEPT !.pc = "exit 1", !.kind = "migrate"]
    ELSE IdleLd

\* no CSV has been given to the processCSV functions
NoNorm == [pc |-> "idle", rows |-> <<>>, clean |-> <<>>, server |-> <<>>, migrate |-> <<>>]

\* import_pbf_node.js is not running
IdlePbf == [pc |-> "idle", roads |-> <<>>, i |-> 0, failedAt |-> 0 - 1]

\* no GET /api/statistics request is being served
NoStat == [pc |-> "idle", k |-> 0, failing |-> {}, results |-> <<>>]

\* useState('condition'), useState(false) of Header; done counts the
\* handleHeatmapToggle invocations that have run to their end
HeaderMounted == [heatmapType |-> "condition", showHeatmap |-> FALSE, done |-> 0]

\* an empty heatmapData: useState([])
NoHeatmapData == [type |-> "none", n |-> 0]

\* RoadDataProvider before its mount effect: useState([]) three times
ProviderMounted ==
    [roads |-> [from |-> "none", n |-> 0], heatmapData |-> NoHeatmapData,
     loading |-> FALSE, pc |-> "idle", requests |-> <<>>]

\* MapContainer's center and zoom props
InitialView == [center |-> "40.5,-77.5", zoom |-> 7]

\* MapComponent after its first render; mapSet: whenCreated has called setMap
MapMounted(mapSet) ==
    [showHeatmap |-> FALSE, map |-> mapSet, view |-> InitialView, layers |-> <<>>,
     search |-> "idle", query |-> ""]

\* no PBFParser has been constructed
IdleParser ==
    [pc |-> "idle", buffer |-> <<>>, position |-> 0, before |-> 0, iterations |-> 0,
     varint |-> [from |-> 0, to |-> 0, result |-> {}],
     block |-> [null |-> TRUE, from |-> 0, to |-> 0, size |-> {}]]

\* getRoadWeight has not been called
NoWeight == [pc |-> "idle", road |-> <<>>, weight |-> 0]

\* the parts of the system a specification leaves at rest
ExtraIdle ==
    /\ server = "up"
    /\ stat = NoStat
    /\ hdr = HeaderMounted
    /\ mapc = MapMounted(TRUE)
    /\ ctx = ProviderMounted
    /\ calls = <<>>
    /\ parser = IdleParser
    /\ wt = NoWeight

\* the table a fresh database holds, or what an earlier migration left
InitialTables == { {}, RowsOf(0, MigrateProcessCSV(Files[1]), 1) }

Init ==
    /\ csvFile \in 0..NumFiles
    /\ committed \in InitialTables
    /\ nextTxn = 0
    /\ ld = [l \in Loaders |-> IF l = 1 THEN [IdleLd EXCEPT !.pc = "start"] ELSE IdleLd]
    /\ hist = <<>>
    /\ rolledBack = "none"
    /\ lastRead = [done |-> FALSE, rows |-> {}, during |-> FALSE]
    /\ matview = {}
    /\ up = IdleUp
    /\ osm = {}
    /\ resp = NoResp
    /\ pg = NoPaging
    /\ clients = 0
    /\ proc = NoProc
    /\ norm = NoNorm
    /\ pbf = IdlePbf
    /\ osmWays = {}
    /\ ExtraIdle

\* ------------------------------------------------- loadCSVData (server.js)

\* line 391: loadCSVData() at startup, up to its first await
Startup(l) ==
    /\ ld[l].pc = "start"
    /\ server = "up"
    /\ ld' = [ld EXCEPT ![l] =
                IF csvFile # 0 THEN [IdleLd EXCEPT !.pc = "parse", !.kind = "server"]
                ELSE IdleLd]
    /\ UNCHANGED <<csvFile, committed, nextTxn, hist, rolledBack, lastRead, matview, up, queryVars, clients, proc, scriptVars, extraVars>>

\* the watcher's 'change' handler: the file has new contents, loadCSVData()
\* is called and runs to its first await (the file exists)
Change(l, f) ==
    /\ ld[l].pc = "idle"
    /\ server = "up"
    /\ csvFile # 0
    /\ nextTxn + Cardinality({k \in Loaders : ld[k].pc \in {"start", "parse", "connect"}}) < MaxLoads
    /\ csvFile' = f
    /\ ld' = [ld EXCEPT ![l] = [IdleLd EXCEPT !.pc = "parse", !.kind = "server"]]
    /\ UNCHANGED <<committed, nextTxn, hist, rolledBack, lastRead, matview, up, queryVars, clients, proc, scriptVars, extraVars>>

\* await processCSV(csvPath): the stream ends (or fails: the outer catch)
Parsed(l) ==
    /\ ld[l].pc = "parse"
    /\ ld' = [ld EXCEPT ![l] =
                IF csvFile = 0 THEN AfterFailure(ld[l].kind)
                ELSE [@ EXCEPT !.pc = "connect", !.file = csvFile,
                               !.data = ProcessCSV(ld[l].kind, Files[csvFile])]]
    /\ UNCHANGED <<csvFile, committed, nextTxn, hist, rolledBack, lastRead, matview, up, queryVars, clients, proc, scriptVars, extraVars>>

\* the read stream of processCSV emits 'error' (the file cannot be opened
\* or read): the stream has no 'error' listener, reject being attached to
\* the csv() stream it is piped into, so the error is thrown as an uncaught
\* exception and the process ends.  For the server this takes the loads in
\* flight with it (their transactions are never committed, their clients
\* go with the pool) and the upload being served; the migration script
\* ends with a failure status
ParseFails(l) ==
    /\ ld[l].pc = "parse"
    /\ IF ld[l].kind = "server"
       THEN /\ server' = "down"
            /\ ld' = [k \in Loaders |-> IF ld[k].kind = "server" THEN IdleLd ELSE ld[k]]
            /\ clients' = clients - Cardinality({k \in Loaders : ld[k].kind = "server" /\ HoldsClient(k)})
            /\ up' = IF up.pc = "parse" THEN IdleUp ELSE up
       ELSE /\ ld' = [ld EXCEPT ![l] = AfterFailure("migrate")]
            /\ UNCHANGED <<server, clients, up>>
    /\ UNCHANGED <<csvFile, committed, nextTxn, hist, rolledBack, lastRead, matview, queryVars, proc, scriptVars,
                   stat, uiVars, parser, wt>>

\* await pool.connect()
Connect(l) ==
    /\ ld[l].pc = "connect"
    /\ nextTxn' = nextTxn + 1
    /\ ld' = [ld EXCEPT ![l] = [@ EXCEPT !.pc = "begin", !.txn = nextTxn + 1]]
    /\ clients' = clients + 1
    /\ UNCHANGED <<csvFile, committed, hist, rolledBack, lastRead, matview, up, queryVars, proc, scriptVars, extraVars>>

\* pool.connect() rejects (the database is unreachable): no client is
\* checked out and the try block with its finally is not entered
ConnectFails(l) ==
    /\ ld[l].pc = "connect"
    /\ nextTxn' = nextTxn + 1
    /\ ld' = [ld EXCEPT ![l] = AfterFailure(ld[l].kind)]
    /\ UNCHANGED <<csvFile, committed, hist, rolledBack, lastRead, matview, up, queryVars, clients, proc, scriptVars, extraVars>>

\* await client.query('BEGIN')
Begin(l) ==
    /\ ld[l].pc = "begin"
    /\ ld' = [ld EXCEPT ![l] = [@ EXCEPT !.pc = "delete"]]
    /\ UNCHANGED <<csvFile, committed, nextTxn, hist, rolledBack, lastRead, matview, up, queryVars, clients, proc, scriptVars, extraVars>>

\* client.query('DELETE FROM road_segments') is sent: the statement's
\* snapshot is the committed table
DeleteStart(l) ==
    /\ ld[l].pc = "delete"
    /\ ld' = [ld EXCEPT ![l] = [@ EXCEPT !.pc = "deleting", !.snap = Ids(committed)]]
    /\ UNCHANGED <<csvFile, committed, nextTxn, hist, rolledBack, lastRead, matview, up, queryVars, clients, proc, scriptVars, extraVars>>

\* the rows another open transaction has deleted and not yet committed
LockedByOthers(l) ==
    UNION {ld[k].del : k \in {x \in Loaders : x # l /\ TxnOpen(x)}}

\* (a DELETE that removes nothing)
DeletedRowsNone(snap, table) == {}

\* what the DELETE deletes: the rows of its snapshot that still exist
DeletedRows(snap, table) == snap \cap Ids(table)

\* the DELETE returns: it has waited for the transactions holding rows of its
\* snapshot and deletes those of its rows that are still there
DeleteFinish(l) ==
    /\ ld[l].pc = "deleting"
    /\ ld[l].snap \cap LockedByOthers(l) = {}
    /\ ld' = [ld EXCEPT ![l] =
                [@ EXCEPT !.del = DeletedRows(ld[l].snap, committed),
                          !.pc = LoopEnter(ld[l].data).pc,
                          !.i = LoopEnter(ld[l].data).i,
                          !.j = LoopEnter(ld[l].data).j]]
    /\ UNCHANGED <<csvFile, committed, nextTxn, hist, rolledBack, lastRead, matview, up, queryVars, clients, proc, scriptVars, extraVars>>

\* await client.query(insertQuery, [...]) for the row at (i, j) succeeds
Insert(l) ==
    /\ ld[l].pc = "insert"
    /\ LET k == ld[l].i + ld[l].j
           nx == LoopNext(ld[l].data, ld[l].i, ld[l].j)
       IN ld' = [ld EXCEPT ![l] =
                   [@ EXCEPT !.ins = @ \cup {TableRow(ld[l].txn, k, ld[l].data[k])},
                             !.pc = nx.pc, !.i = nx.i, !.j = nx.j]]
    /\ UNCHANGED <<csvFile, committed, nextTxn, hist, rolledBack, lastRead, matview, up, queryVars, clients, proc, scriptVars, extraVars>>

\* a query of the transaction rejects (BEGIN, DELETE, an INSERT or COMMIT):
\* control passes to the catch block, which issues ROLLBACK
QueryFails(l) ==
    /\ ld[l].pc \in {"begin", "deleting", "insert", "commit"}
    /\ ld' = [ld EXCEPT ![l] = [@ EXCEPT !.pc = "rollback"]]
    /\ UNCHANGED <<csvFile, committed, nextTxn, hist, rolledBack, lastRead, matview, up, queryVars, clients, proc, scriptVars, extraVars>>

\* what a ROLLBACK undoes: "partial" when the load had deleted rows and
\* inserted some but not all of its own, else "some"
Undone(l) ==
    IF /\ ld[l].del # {}
       /\ ld[l].ins # {}
       /\ Cardinality(ld[l].ins) < Len(ld[l].data)
    THEN "partial" ELSE "some"

\* the table once a transaction with these deletes and inserts commits
CommitTable(table, del, ins) == {r \in table : r.id \notin del} \cup ins

\* (a rollback that leaves the inserted rows in place)
RollbackTableKeepsInserts(table, del, ins) == table \cup ins

\* the table once it is rolled back
RollbackTable(table, del, ins) == table

\* await client.query('COMMIT') succeeds; then the log line
Commit(l) ==
    /\ ld[l].pc = "commit"
    /\ committed' = CommitTable(committed, ld[l].del, ld[l].ins)
    /\ hist' = Append(hist, [txn |-> ld[l].txn, kind |-> ld[l].kind, file |-> ld[l].file])
    /\ ld' = [ld EXCEPT ![l] =
                [@ EXCEPT !.pc = "committed", !.del = {}, !.ins = {}, !.snap = {}]]
    /\ UNCHANGED <<csvFile, nextTxn, rolledBack, lastRead, matview, up, queryVars, clients, proc, scriptVars, extraVars>>

\* catch: await client.query('ROLLBACK') resolves, then throw error
Rollback(l) ==
    /\ ld[l].pc = "rollback"
    /\ committed' = RollbackTable(committed, ld[l].del, ld[l].ins)
    /\ rolledBack' = Undone(l)
    /\ ld' = [ld EXCEPT ![l] = [IdleLd EXCEPT !.pc = "rolled back", !.kind = ld[l].kind]]
    /\ UNCHANGED <<csvFile, nextTxn, hist, lastRead, matview, up, queryVars, clients, proc, scriptVars, extraVars>>

\* catch: client.query('ROLLBACK') itself rejects (the connection is gone):
\* its error leaves the catch block.  The server ends the transaction of a
\* lost connection without committing.
RollbackFails(l) ==
    /\ ld[l].pc = "rollback"
    /\ committed' = RollbackTable(committed, ld[l].del, ld[l].ins)
    /\ rolledBack' = "lost"
    /\ ld' = [ld EXCEPT ![l] = [IdleLd EXCEPT !.pc = "rollback failed", !.kind = ld[l].kind]]
    /\ UNCHANGED <<csvFile, nextTxn, hist, lastRead, matview, up, queryVars, clients, proc, scriptVars, extraVars>>

\* finally { client.release(); } on each way out of the try block.  After
\* COMMIT loadCSVData returns and insertRoadData hands back to migrateData;
\* after a failure the error goes on to the caller.
Release(l) ==
    /\ ld[l].pc \in {"committed", "rolled back", "rollback failed"}
    /\ clients' = ReleaseClient(clients, ld[l].pc)
    /\ ld' = [ld EXCEPT ![l] =
                IF ld[l].pc # "committed" THEN AfterFailure(ld[l].kind)
                ELSE IF ld[l].kind = "server" THEN IdleLd
                ELSE [@ EXCEPT !.pc = "refresh"]]
    /\ UNCHANGED <<csvFile, committed, nextTxn, hist, rolledBack, lastRead, matview, up, queryVars, proc, scriptVars, extraVars>>

\* ------------------------------------------- migrateData (migrate_data.js)

\* node migrate_data.js: existsSync, then processCSV is started; without
\* the file the script throws and exits
MigrateStart(l) ==
    /\ ld[l].pc = "idle"
    /\ nextTxn + Cardinality({k \in Loaders : ld[k].pc \in {"start", "parse", "connect"}}) < MaxLoads
    /\ ld' = [ld EXCEPT ![l] =
                IF csvFile # 0 THEN [IdleLd EXCEPT !.pc = "parse", !.kind = "migrate"]
                ELSE AfterFailure("migrate")]
    /\ UNCHANGED <<csvFile, committed, nextTxn, hist, rolledBack, lastRead, matview, up, queryVars, clients, proc, scriptVars, extraVars>>

\* SELECT refresh_road_statistics(): the view is recomputed from the
\* committed table; 'Migration completed successfully!', and the script
\* ends with status 0
MigrateRefresh(l) ==
    /\ ld[l].pc = "refresh"
    /\ matview' = {r.d : r \in committed}
    /\ ld' = [ld EXCEPT ![l] = [IdleLd EXCEPT !.pc = "exit 0", !.kind = "migrate"]]
    /\ UNCHANGED <<csvFile, committed, nextTxn, hist, rolledBack, lastRead, up, queryVars, clients, proc, scriptVars, extraVars>>

\* pool.connect() or SELECT refresh_road_statistics() rejects: the view is
\* left as it was and the catch block ends the script
MigrateRefreshFails(l) ==
    /\ ld[l].pc = "refresh"
    /\ ld' = [ld EXCEPT ![l] = AfterFailure("migrate")]
    /\ UNCHANGED <<csvFile, committed, nextTxn, hist, rolledBack, lastRead, matview, up, queryVars, clients, proc, scriptVars, extraVars>>

\* the migration process is gone
ProcessExit(l) ==
    /\ ld[l].pc \in {"exit 0", "exit 1"}
    /\ ld' = [ld EXCEPT ![l] = IdleLd]
    /\ UNCHANGED <<csvFile, committed, nextTxn, hist, rolledBack, lastRead, matview, up, queryVars, clients, proc, scriptVars, extraVars>>

\* ------------------------------------------------------------- reads

\* GET /api/roads without filters, or total_segments of GET /api/statistics:
\* one SELECT on a pool connection, which sees the committed rows
ReadRows(table) == {r.d : r \in table}

Read ==
    /\ server = "up"
    /\ lastRead' = [done |-> TRUE, rows |-> ReadRows(committed),
                    during |-> \E l \in Loaders : InFlight(l)]
    /\ UNCHANGED <<csvFile, committed, nextTxn, ld, hist, rolledBack, matview, up, queryVars, clients, proc, scriptVars, extraVars>>

Next ==
    \/ \E l \in Loaders : Startup(l)
    \/ \E l \in Loaders, f \in 1..NumFiles : Change(l, f)
    \/ \E l \in Loaders : Parsed(l)
    \/ \E l \in Loaders : ParseFails(l)
    \/ \E l \in Loaders : Connect(l)
    \/ \E l \in Loaders : ConnectFails(l)
    \/ \E l \in Loaders : Begin(l)
    \/ \E l \in Loaders : DeleteStart(l)
    \/ \E l \in Loaders : DeleteFinish(l)
    \/ \E l \in Loaders : Insert(l)
    \/ \E l \in Loaders : QueryFails(l)
    \/ \E l \in Loaders : Commit(l)
    \/ \E l \in Loaders : Rollback(l)
    \/ \E l \in Loaders : RollbackFails(l)
    \/ \E l \in Loaders : Release(l)
    \/ \E l \in Loaders : MigrateStart(l)
    \/ \E l \in Loaders : MigrateRefresh(l)
    \/ \E l \in Loaders : MigrateRefreshFails(l)
    \/ \E l \in Loaders : ProcessExit(l)
    \/ Read

Spec == Init /\ [][Next]_vars

\* ------------------------------------------- POST /api/upload (server.js)

\* the request arrives; multer has stored the 'csv' file part, if any, under
\* uploads/.  Without a file the handler answers 400; with one it starts
\* processCSV(req.file.path)
UploadRequest(f) ==
    /\ up.pc \in {"idle", "done"}
    /\ server = "up"
    /\ up' = IF f = 0
             THEN [pc |-> "done", file |-> 0, tmp |-> FALSE, data |-> <<>>,
                   status |-> 400, body |-> "No file uploaded"]
             ELSE [pc |-> "parse", file |-> f, tmp |-> TRUE, data |-> <<>>,
                   status |-> 0, body |-> ""]
    /\ UNCHANGED <<committed, loadVars, queryVars, clients, proc, scriptVars, extraVars>>

\* processCSV resolves; the next statement, db.run('DELETE FROM
\* road_segments'), names a binding the module never declares: it throws a
\* ReferenceError, and the catch block answers 500 with its message.  The
\* statements after it (the inserts, fs.unlinkSync, the success answer) are
\* not reached.
UploadParsed ==
    /\ up.pc = "parse"
    /\ server = "up"
    /\ up' = [up EXCEPT !.pc = "done", !.data = ServerProcessCSV(Files[up.file]),
                        !.status = 500, !.body = "db is not defined"]
    /\ UNCHANGED <<committed, loadVars, queryVars, clients, proc, scriptVars, extraVars>>

\* ------------------------------------------------- loads one after another

\* no other load is in flight
Alone(l) == \A k \in Loaders \ {l} : ld[k].pc = "idle"

NextSeq ==
    \/ \E l \in Loaders : Startup(l)
    \/ \E l \in Loaders, f \in 1..NumFiles : Alone(l) /\ Change(l, f)
    \/ \E l \in Loaders : Parsed(l)
    \/ \E l \in Loaders : ParseFails(l)
    \/ \E l \in Loaders : Connect(l)
    \/ \E l \in Loaders : ConnectFails(l)
    \/ \E l \in Loaders : Begin(l)
    \/ \E l \in Loaders : DeleteStart(l)
    \/ \E l \in Loaders : DeleteFinish(l)
    \/ \E l \in Loaders : Insert(l)
    \/ \E l \in Loaders : QueryFails(l)
    \/ \E l \in Loaders : Commit(l)
    \/ \E l \in Loaders : Rollback(l)
    \/ \E l \in Loaders : RollbackFails(l)
    \/ \E l \in Loaders : Release(l)
    \/ \E l \in Loaders : Alone(l) /\ MigrateStart(l)
    \/ \E l \in Loaders : MigrateRefresh(l)
    \/ \E l \in Loaders : MigrateRefreshFails(l)
    \/ \E l \in Loaders : ProcessExit(l)
    \/ \E f \in 0..NumFiles : UploadRequest(f)
    \/ UploadParsed

\* the loads of a behaviour never overlap
SpecSeq == Init /\ [][NextSeq]_vars

\* ------------------------------------------------- GET /api/roads

\* a query-string parameter is used as a filter when it is truthy: present
\* and not the empty string
QTruthy(v) == v # Absent /\ v # ""

\* (the max_condition block copied from min_condition with its operator)
RoadsFiltersSameOperator ==
    << [param |-> "fac_type", col |-> "fac_type", op |-> "="],
       [param |-> "surf_type", col |-> "surf_type", op |-> "="],
       [param |-> "district_no", col |-> "district_no", op |-> "="],
       [param |-> "urban_rural", col |-> "urban_rural", op |-> "="],
       [param |-> "min_condition", col |-> "rough_indx", op |-> ">="],
       [param |-> "max_condition", col |-> "rough_indx", op |-> ">="] >>

\* the six if-blocks of the handler, in their order: the request parameter,
\* the column it is compared with and the comparison
RoadsFilters ==
    << [param |-> "fac_type", col |-> "fac_type", op |-> "="],
       [param |-> "surf_type", col |-> "surf_type", op |-> "="],
       [param |-> "district_no", col |-> "district_no", op |-> "="],
       [param |-> "urban_rural", col |-> "urban_rural", op |-> "="],
       [param |-> "min_condition", col |-> "rough_indx", op |-> ">="],
       [param |-> "max_condition", col |-> "rough_indx", op |-> "<="] >>

\* query += ` AND col op $${++paramCount}`; params.push(value)
AddClause(acc, f, value) ==
    [ where |-> Append(acc.where, [col |-> f.col, op |-> f.op, param |-> f.param,
                                    ph |-> acc.paramCount + 1]),
      params |-> Append(acc.params, value),
      paramCount |-> acc.paramCount + 1 ]

RECURSIVE AddFilters(_, _, _)
AddFilters(q, k, acc) ==
    IF k > Len(RoadsFilters) THEN acc
    ELSE AddFilters(q, k + 1,
            IF QTruthy(q[RoadsFilters[k].param])
            THEN AddClause(acc, RoadsFilters[k], q[RoadsFilters[k].param])
            ELSE acc)

\* limit = 10000 when the parameter is undefined
DefaultLimit == 10000

\* parseInt(limit), parseInt(offset) with the destructuring defaults
LimitParam(q) == IF q.limit = Absent THEN {DefaultLimit} ELSE ParseInt(q.limit)
OffsetParam(q) == IF q.offset = Absent THEN {0} ELSE ParseInt(q.offset)

\* (the two values pushed in the other order)
AddLimitOffsetSwapped(acc, q) ==
    [ where |-> acc.where,
      limitPh |-> acc.paramCount + 1,
      offsetPh |-> acc.paramCount + 2,
      params |-> acc.params \o <<OffsetParam(q), LimitParam(q)>> ]

\* query += ` LIMIT $${++paramCount} OFFSET $${++paramCount}`;
\* params.push(parseInt(limit), parseInt(offset))
AddLimitOffset(acc, q) ==
    [ where |-> acc.where,
      limitPh |-> acc.paramCount + 1,
      offsetPh |-> acc.paramCount + 2,
      params |-> acc.params \o <<LimitParam(q), OffsetParam(q)>> ]

\* the statement and parameter list the handler sends
BuildRoadsQuery(q) ==
    AddLimitOffset(AddFilters(q, 1, [where |-> <<>>, params |-> <<>>, paramCount |-> 0]), q)

\* PostgreSQL reading a text parameter as numeric: the whole text must be a
\* number ({} : invalid input syntax)
PgNumeric(s) == IF s = "7x" THEN {} ELSE ParseFloat(s)

TheOne(p) == CHOOSE n \in p : TRUE

\* whether a row satisfies one clause, $ph read from the parameter list
Satisfies(d, c, params) ==
    CASE c.op = "="  -> d[c.col] = params[c.ph]
      [] c.op = ">=" -> d[c.col] >= TheOne(PgNumeric(params[c.ph]))
      [] c.op = "<=" -> d[c.col] <= TheOne(PgNumeric(params[c.ph]))

\* the statement is rejected: a numeric comparison with a text that is no
\* number, a LIMIT or OFFSET that is NaN or negative
QueryRejected(bq) ==
    \/ \E k \in 1..Len(bq.where) :
          bq.where[k].op # "=" /\ PgNumeric(bq.params[bq.where[k].ph]) = {}
    \/ bq.params[bq.limitPh] = {}
    \/ bq.params[bq.offsetPh] = {}
    \/ (bq.params[bq.limitPh] # {} /\ TheOne(bq.params[bq.limitPh]) < 0)
    \/ (bq.params[bq.offsetPh] # {} /\ TheOne(bq.params[bq.offsetPh]) < 0)

\* the rows of the table that satisfy every clause, in the order the scan
\* delivers them, then OFFSET and LIMIT
RunRoadsQuery(bq, scan) ==
    LET hit == SelectSeq(scan, LAMBDA r :
                   \A k \in 1..Len(bq.where) : Satisfies(r.d, bq.where[k], bq.params))
        off == TheOne(bq.params[bq.offsetPh])
        lim == TheOne(bq.params[bq.limitPh])
    IN SubSeq(hit, off + 1, Min(off + lim, Len(hit)))

\* the message of the error PostgreSQL raises for a rejected statement
StatementError(bq) ==
    IF \E k \in 1..Len(bq.where) :
          bq.where[k].op # "=" /\ PgNumeric(bq.params[bq.where[k].ph]) = {}
    THEN "invalid input syntax for type numeric"
    ELSE IF bq.params[bq.limitPh] = {} \/ bq.params[bq.offsetPh] = {}
    THEN "invalid input syntax for type bigint: \"NaN\""
    ELSE "LIMIT must not be negative"

\* what await pool.query(query, params) gives: the rows, or the error it
\* rejects with (error "" : it resolved)
QueryOutcome(bq, scan) ==
    IF QueryRejected(bq) THEN [error |-> StatementError(bq), rows |-> <<>>]
    ELSE [error |-> "", rows |-> RunRoadsQuery(bq, scan)]

\* (a catch block that answers with a fixed text)
HandlerReplyGenericMessage(ep, q, outcome) ==
    IF outcome.error = ""
    THEN [ ep |-> ep, q |-> q, status |-> 200, rows |-> outcome.rows,
           error |-> "", db |-> outcome.error, sent |-> 1 ]
    ELSE [ ep |-> ep, q |-> q, status |-> 500, rows |-> <<>>,
           error |-> "Internal server error", db |-> outcome.error, sent |-> 1 ]

\* try { result = await pool.query(...); res.json(result.rows); }
\* catch (error) { res.status(500).json({ error: error.message }); }
\* db keeps what the query did, sent counts the responses written
HandlerReply(ep, q, outcome) ==
    IF outcome.error = ""
    THEN [ ep |-> ep, q |-> q, status |-> 200, rows |-> outcome.rows,
           error |-> "", db |-> outcome.error, sent |-> 1 ]
    ELSE [ ep |-> ep, q |-> q, status |-> 500, rows |-> <<>>,
           error |-> outcome.error, db |-> outcome.error, sent |-> 1 ]

\* the answer of GET /api/roads
RoadsResponse(q, scan) == HandlerReply("roads", q, QueryOutcome(BuildRoadsQuery(q), scan))

\* The statement has no ORDER BY: the rows come in whatever order the scan
\* delivers them, which no two executions need share.
Orders(table) ==
    {s \in [1..Cardinality(table) -> table] :
        \A a, b \in 1..Cardinality(table) : a # b => s[a] # s[b]}

\* the requests of the model
RoadsQueries ==
    [ fac_type : {Absent, "", "1"},
      surf_type : {Absent, "52"},
      district_no : {Absent, "02"},
      urban_rural : {Absent, "R"},
      min_condition : {Absent, "120", "abc"},
      max_condition : {Absent, "55"},
      limit : {Absent, "0", "1", "2", "abc"},
      offset : {Absent, "1", "2"} ]

\* the model's client has one thing under way at a time: a single request
\* whose answer it then takes, or a paging session
ClientFree == resp = NoResp /\ ~pg.on

GetRoads(q, scan) ==
    /\ ClientFree
    /\ resp' = RoadsResponse(q, scan)
    /\ UNCHANGED <<committed, loadVars, up, osm, pg, clients, proc, scriptVars, extraVars>>

\* ------------------------------------------------ a client paging

DecimalText(n) ==
    CASE n = 0 -> "0" [] n = 1 -> "1" [] n = 2 -> "2" [] n = 3 -> "3"
      [] n = 4 -> "4" [] n = 5 -> "5" [] n = 6 -> "6" [] OTHER -> "7"

NoFilters ==
    [ fac_type |-> Absent, surf_type |-> Absent, district_no |-> Absent,
      urban_rural |-> Absent, min_condition |-> Absent, max_condition |-> Absent,
      limit |-> Absent, offset |-> Absent ]

\* the filters the paging client of the model uses
PagingFilters == { NoFilters, [NoFilters EXCEPT !.fac_type = "1"] }

\* page sizes of the paging client
MaxPageSize == 2

\* the client starts: pages of L rows with filters q
PageStart(q, L) ==
    /\ ClientFree
    /\ pg' = [on |-> TRUE, q |-> q, limit |-> L, pages |-> <<>>, done |-> FALSE]
    /\ UNCHANGED <<committed, loadVars, up, osm, resp, clients, proc, scriptVars, extraVars>>

\* it requests the next page, offset = L * (pages so far), and stops at a
\* page shorter than L
PageFetch(scan) ==
    /\ pg.on /\ ~pg.done
    /\ LET r == RoadsResponse([pg.q EXCEPT !.limit = DecimalText(pg.limit),
                                           !.offset = DecimalText(pg.limit * Len(pg.pages))],
                              scan)
       IN pg' = [pg EXCEPT !.pages = Append(@, [k \in 1..Len(r.rows) |-> r.rows[k].id]),
                           !.done = Len(r.rows) < pg.limit]
    /\ UNCHANGED <<committed, loadVars, up, osm, resp, clients, proc, scriptVars, extraVars>>

\* the client has its answer, or its last page
Received ==
    /\ resp # NoResp \/ pg.done
    /\ resp' = NoResp
    /\ pg' = NoPaging
    /\ UNCHANGED <<committed, loadVars, up, osm, clients, proc, scriptVars, extraVars>>

\* ------------------------------------------------ GET /api/heatmap

\* EXTRACT(YEAR FROM CURRENT_DATE)
CurrentYear == 2026

\* (a default branch that falls to the traffic statement)
CsvDefaultQueryTraffic ==
    [from |-> "road_segments", value |-> "cur_aadt", positive |-> "cur_aadt"]

\* the default: branch of the road_segments switch
CsvDefaultQuery ==
    [from |-> "road_segments", value |-> "rough_indx", positive |-> "rough_indx"]

\* the default: branch of the osm_roads switch
OsmDefaultQuery ==
    [from |-> "osm_roads", value |-> "length_meters", positive |-> "length_meters"]

\* the statements of the two switch blocks: the table, the value column and
\* the WHERE condition ("" : none on that column)
HeatmapQuery(type, data_source) ==
    IF data_source = "osm"
    THEN CASE type = "condition" ->
                [from |-> "osm_roads", value |-> "length_meters", positive |-> "length_meters"]
           [] type = "traffic" ->
                [from |-> "osm_roads", value |-> "COALESCE(lanes, 1)", positive |-> ""]
           [] type = "age" ->
                [from |-> "osm_roads", value |-> "length_meters", positive |-> ""]
           [] OTHER -> OsmDefaultQuery
    ELSE CASE type = "condition" ->
                [from |-> "road_segments", value |-> "rough_indx", positive |-> "rough_indx"]
           [] type = "traffic" ->
                [from |-> "road_segments", value |-> "cur_aadt", positive |-> "cur_aadt"]
           [] type = "age" ->
                [from |-> "road_segments", value |-> "age", positive |-> "surface_year"]
           [] OTHER -> CsvDefaultQuery

\* a column or expression of a row
ColumnOf(d, col) ==
    CASE col = "age" -> CurrentYear - d.surface_year
      [] col = "COALESCE(lanes, 1)" -> IF d.lanes = {} THEN 1 ELSE TheOne(d.lanes)
      [] OTHER -> d[col]

\* the rows the statement returns, in scan order: x, y of the start point
\* and the value; osm_roads statements keep state = 'PA'
RunHeatmapQuery(hq, scan) ==
    LET hit == SelectSeq(scan, LAMBDA r :
                   /\ (hq.positive # "" => r.d[hq.positive] > 0)
                   /\ (hq.from = "osm_roads" => r.d.state = "PA"))
    IN [k \in 1..Len(hit) |->
          [ x_value_bgn |-> hit[k].d.x_value_bgn, y_value_bgn |-> hit[k].d.y_value_bgn,
            value |-> ColumnOf(hit[k].d, hq.value) ]]

\* const { type = 'condition', data_source = 'csv' } = req.query
HeatmapType(q) == IF q.type = Absent THEN "condition" ELSE q.type
HeatmapSource(q) == IF q.data_source = Absent THEN "csv" ELSE q.data_source

HeatmapTable(q) == IF HeatmapSource(q) = "osm" THEN osm ELSE committed

HeatmapResponse(q, scan) ==
    HandlerReply("heatmap", q,
        [ error |-> "",
          rows |-> RunHeatmapQuery(HeatmapQuery(HeatmapType(q), HeatmapSource(q)), scan) ])

HeatmapQueries ==
    [ type : {Absent, "", "condition", "traffic", "age", "bogus"},
      data_source : {Absent, "csv", "osm", "pbf"} ]

GetHeatmap(q, scan) ==
    /\ ClientFree
    /\ resp' = HeatmapResponse(q, scan)
    /\ UNCHANGED <<committed, loadVars, up, osm, pg, clients, proc, scriptVars, extraVars>>

\* ------------------------------------------------ GET /api/osm-roads

\* const { highway, state = 'PA', limit = 10000, offset = 0 } = req.query
StateParam(q) == IF q.state = Absent THEN "PA" ELSE q.state

\* (the highway clause left out)
OsmRoadsFiltersNone(q) ==
    [where |-> <<[col |-> "state", op |-> "=", param |-> "state", ph |-> 1]>>,
     params |-> <<StateParam(q)>>, paramCount |-> 1]

\* WHERE state = $1, params = [state]; then the highway block
OsmRoadsFilters(q) ==
    LET acc == [where |-> <<[col |-> "state", op |-> "=", param |-> "state", ph |-> 1]>>,
                params |-> <<StateParam(q)>>, paramCount |-> 1]
    IN IF QTruthy(q.highway)
       THEN AddClause(acc, [param |-> "highway", col |-> "highway", op |-> "="], q.highway)
       ELSE acc

\* the statement and parameter list the handler sends
BuildOsmRoadsQuery(q) == AddLimitOffset(OsmRoadsFilters(q), q)

OsmRoadsResponse(q, scan) ==
    HandlerReply("osm-roads", q, QueryOutcome(BuildOsmRoadsQuery(q), scan))

OsmRoadsQueries ==
    [ highway : {Absent, "", "primary"},
      state : {Absent, "", "PA", "NJ"},
      limit : {Absent, "0", "1", "abc"},
      offset : {Absent, "1"} ]

GetOsmRoads(q, scan) ==
    /\ ClientFree
    /\ resp' = OsmRoadsResponse(q, scan)
    /\ UNCHANGED <<committed, loadVars, up, osm, pg, clients, proc, scriptVars, extraVars>>

\* ------------------------------------- the database cannot be reached

\* pool.query rejects whatever the statement (no connection, no such
\* table): the handler's catch block answers
DbUnavailable(ep, q) ==
    /\ ClientFree
    /\ resp' = HandlerReply(ep, q, [error |-> "connect ECONNREFUSED", rows |-> <<>>])
    /\ UNCHANGED <<committed, loadVars, up, osm, pg, clients, proc, scriptVars, extraVars>>

\* ------------------------------------------------ GET /api/statistics

\* Object.entries(queries): the six keys in their order
StatKeys ==
    << "total_segments", "total_miles", "by_fac_type", "by_surf_type",
       "by_condition", "by_district" >>

RECURSIVE SumMiles(_)
SumMiles(rows) ==
    IF rows = {} THEN 0
    ELSE LET r == CHOOSE x \in rows : TRUE
         IN r.d.segment_miles + SumMiles(rows \ {r})

\* SELECT col, COUNT(*) as count FROM ... GROUP BY col
GroupCount(rows, col) ==
    { [key |-> v, count |-> Cardinality({r \in rows : r.d[col] = v})] :
        v \in {r.d[col] : r \in rows} }

\* the rows of each of the six statements (SUM over no rows is NULL: {})
StatRows(key, table) ==
    CASE key = "total_segments" -> {[count |-> Cardinality(table)]}
      [] key = "total_miles" ->
            {[total |-> IF table = {} THEN {} ELSE {SumMiles(table)}]}
      [] key = "by_fac_type" -> GroupCount(table, "fac_type")
      [] key = "by_surf_type" -> GroupCount(table, "surf_type")
      [] key = "by_condition" ->
            GroupCount({r \in table : r.d.iri_rating_text # ""}, "iri_rating_text")
      [] key = "by_district" -> GroupCount(table, "district_no")

\* (a catch block that stores the error instead of an empty array)
StatResultKeepsError(key, failing, table) ==
    IF key \in failing THEN {[error |-> "query failed"]} ELSE StatRows(key, table)

\* one pass of the loop body: results[key] = result.rows, or [] in the
\* inner catch when the key's query rejects
StatResult(key, failing, table) ==
    IF key \in failing THEN {} ELSE StatRows(key, table)

\* the for loop over the six entries
RECURSIVE StatLoop(_, _, _, _)
StatLoop(k, failing, table, acc) ==
    IF k > Len(StatKeys) THEN acc
    ELSE StatLoop(k + 1, failing, table,
            [ results |-> acc.results @@ (StatKeys[k] :> StatResult(StatKeys[k], failing, table)),
              executed |-> Append(acc.executed, StatKeys[k]) ])

\* res.json(results); failing: the keys whose query rejects
StatisticsResponse(failing, table) ==
    LET a == StatLoop(1, failing, table, [results |-> <<>>, executed |-> <<>>])
    IN [ ep |-> "statistics", q |-> failing, status |-> 200, rows |-> a.results,
         error |-> "", db |-> "", sent |-> 1, executed |-> a.executed ]

GetStatistics(failing) ==
    /\ ClientFree
    /\ resp' = StatisticsResponse(failing, committed)
    /\ UNCHANGED <<committed, loadVars, up, osm, pg, clients, proc, scriptVars, extraVars>>

\* ------------------------------------------------ the read endpoints alone

OsmRow(id, highway, len, lanes, x, y) ==
    [ id |-> <<0, id>>,
      d |-> [ highway |-> highway, state |-> "PA", length_meters |-> len,
              lanes |-> lanes, x_value_bgn |-> x, y_value_bgn |-> y ] ]

\* osm_roads as generatePennsylvaniaRoads or extract_roads_from_ways leave
\* it: lanes may be NULL ({}), a degenerate line has length 0
OsmTables ==
    { {},
      { OsmRow(1, "motorway", 1200, {4}, 0 - 75, 40),
        OsmRow(2, "residential", 0, {}, 0 - 76, 41),
        OsmRow(3, "primary", 300, {}, 0 - 75, 41) } }

\* road_segments as the loads leave it: empty, the rows of one load, or the
\* rows of two overlapping loads
QueryTables ==
    { {},
      RowsOf(1, ServerProcessCSV(Files[1]), 1),
      RowsOf(1, MigrateProcessCSV(Files[2]), 1),
      RowsOf(1, ServerProcessCSV(Files[1]), 1) \cup RowsOf(2, ServerProcessCSV(Files[2]), 1) }

InitQuery ==
    /\ csvFile \in 1..NumFiles
    /\ committed \in QueryTables
    /\ nextTxn = 0
    /\ ld = [l \in Loaders |-> IdleLd]
    /\ hist = <<>>
    /\ rolledBack = "none"
    /\ lastRead = [done |-> FALSE, rows |-> {}, during |-> FALSE]
    /\ matview = {}
    /\ up = IdleUp
    /\ osm \in OsmTables
    /\ resp = NoResp
    /\ pg = NoPaging
    /\ clients = 0
    /\ proc = NoProc
    /\ norm = NoNorm
    /\ pbf = IdlePbf
    /\ osmWays = {}
    /\ ExtraIdle

NextQuery ==
    \/ ClientFree /\ \E scan \in Orders(committed) : \E q \in RoadsQueries : GetRoads(q, scan)
    \/ \E q \in PagingFilters, L \in 1..MaxPageSize : PageStart(q, L)
    \/ (pg.on /\ ~pg.done) /\ \E scan \in Orders(committed) : PageFetch(scan)
    \/ Received
    \/ ClientFree /\ \E q \in HeatmapQueries : \E scan \in Orders(HeatmapTable(q)) : GetHeatmap(q, scan)
    \/ ClientFree /\ \E scan \in Orders(osm) : \E q \in OsmRoadsQueries : GetOsmRoads(q, scan)
    \/ \E q \in RoadsQueries : DbUnavailable("roads", q)
    \/ \E q \in OsmRoadsQueries : DbUnavailable("osm-roads", q)
    \/ \E q \in HeatmapQueries : DbUnavailable("heatmap", q)
    \/ \E failing \in SUBSET SeqToSet(StatKeys) : GetStatistics(failing)

\* the read endpoints on a table no load is changing
SpecQuery == InitQuery /\ [][NextQuery]_vars


\* ------------------------------------- import_pbf_node.js (the PBF script)

\* roads generated in one run (50000 in the source, line 109)
NumRoads == 2

\* what Math.random() decides of a generated road, as far as the model's
\* columns go: two of the seven roadTypes, one of the lane counts 1..4
RoadChoices == [highway : {"motorway", "residential"}, lanes : {2}]

\* the row INSERT stores for roads[i] (i from 0): id and osm_id are
\* 1000000 + i, state is 'PA'
GeneratedRow(road, i) ==
    OsmRow(1000000 + i, road.highway, 1200, {road.lanes}, 0 - 77, 41)

\* the rows of the first k roads
RECURSIVE GeneratedRows(_, _)
GeneratedRows(roads, k) ==
    IF k = 0 THEN {}
    ELSE GeneratedRows(roads, k - 1) \cup {GeneratedRow(roads[k], k - 1)}

\* node import_pbf_node.js <path>: main calls importPBFFile.  Without the
\* file importPBFFile logs 'PBF file not found' and returns; main then logs
\* 'PBF import completed successfully!' and the process ends with status 0.
\* With the file, generatePennsylvaniaRoads is called.
PbfMain(exists) ==
    /\ pbf.pc \in {"idle", "exited"}
    /\ pbf' = IF exists THEN [IdlePbf EXCEPT !.pc = "connect"]
              ELSE [IdlePbf EXCEPT !.pc = "exited"]
    /\ proc' = IF exists THEN proc ELSE ScriptCompleted("pbf", TRUE)
    /\ UNCHANGED <<committed, loadVars, up, queryVars, clients, norm, osmWays, extraVars>>

\* const client = await pool.connect()
PbfConnect ==
    /\ pbf.pc = "connect"
    /\ pbf' = [pbf EXCEPT !.pc = "delete"]
    /\ clients' = clients + 1
    /\ UNCHANGED <<committed, loadVars, up, queryVars, proc, norm, osmWays, extraVars>>

\* pool.connect() rejects: the error reaches main's catch
PbfConnectFails ==
    /\ pbf.pc = "connect"
    /\ pbf' = [pbf EXCEPT !.pc = "exited"]
    /\ proc' = ScriptFailed("pbf")
    /\ UNCHANGED <<committed, loadVars, up, queryVars, clients, norm, osmWays, extraVars>>

\* (a DELETE that removes nothing)
DeleteNoOsmRoads(table) == table

\* DELETE FROM osm_roads, outside any transaction: committed at once
DeleteOsmRoads(table) == {}

\* the DELETE succeeds, then the generation loop fills roads
PbfDelete(roads) ==
    /\ pbf.pc = "delete"
    /\ osm' = DeleteOsmRoads(osm)
    /\ pbf' = [pbf EXCEPT !.pc = "insert", !.roads = roads, !.i = 0]
    /\ UNCHANGED <<committed, loadVars, up, resp, pg, clients, proc, norm, osmWays, extraVars>>

\* await client.query(insertQuery, params) for roads[i] succeeds: the row
\* is committed at once
PbfInsert ==
    /\ pbf.pc = "insert"
    /\ pbf.i < Len(pbf.roads)
    /\ osm' = osm \cup {GeneratedRow(pbf.roads[pbf.i + 1], pbf.i)}
    /\ pbf' = [pbf EXCEPT !.i = @ + 1]
    /\ UNCHANGED <<committed, loadVars, up, resp, pg, clients, proc, norm, osmWays, extraVars>>

\* the DELETE (failedAt 0) or the INSERT of roads[i] (failedAt i + 1)
\* rejects: catch logs and rethrows, finally releases the client, main's
\* catch exits with status 1.  Nothing is undone: there is no transaction.
PbfQueryFails ==
    /\ \/ pbf.pc = "delete"
       \/ pbf.pc = "insert" /\ pbf.i < Len(pbf.roads)
    /\ pbf' = [pbf EXCEPT !.pc = "exited",
                          !.failedAt = IF pbf.pc = "delete" THEN 0 ELSE pbf.i + 1]
    /\ clients' = ReleaseClient(clients, "failed")
    /\ proc' = ScriptFailed("pbf")
    /\ UNCHANGED <<committed, loadVars, up, queryVars, norm, osmWays, extraVars>>

\* the insert loop ends: the success line, finally client.release(), back in
\* main 'PBF import completed successfully!', status 0
PbfDone ==
    /\ pbf.pc = "insert"
    /\ pbf.i = Len(pbf.roads)
    /\ pbf' = [pbf EXCEPT !.pc = "exited"]
    /\ clients' = ReleaseClient(clients, "committed")
    /\ proc' = ScriptCompleted("pbf", FALSE)
    /\ UNCHANGED <<committed, loadVars, up, queryVars, norm, osmWays, extraVars>>

\* ------------------------- extract_roads_from_ways (pbf_import.sql)

\* a row of osm_ways: id, the hstore tags (a function on the keys present)
\* and ST_GeometryType(geom)
Way(id, tags, geomType) == [id |-> id, tags |-> tags, geom |-> geomType]

\* osm_ways as an OSM import leaves it: a road, a proposed road, a building
\* outline, a closed road stored as a polygon, a second road whose lanes tag
\* is no number
WaysTables ==
    { {},
      { Way(12, [highway |-> "proposed"], "ST_LineString"),
        Way(13, [building |-> "yes"], "ST_Polygon"),
        Way(14, [highway |-> "residential"], "ST_Polygon") },
      { Way(11, [highway |-> "primary", lanes |-> "2"], "ST_LineString"),
        Way(12, [highway |-> "proposed"], "ST_LineString"),
        Way(13, [building |-> "yes"], "ST_Polygon") },
      { Way(11, [highway |-> "primary", lanes |-> "2"], "ST_LineString"),
        Way(15, [highway |-> "service", lanes |-> "abc"], "ST_LineString") } }

\* WHERE w.tags ? 'highway' AND w.tags->'highway' NOT IN (...)
\*   AND ST_GeometryType(w.geom) = 'ST_LineString'
SelectedWays(ways) ==
    {w \in ways : /\ "highway" \in DOMAIN w.tags
                  /\ w.tags.highway \notin {"no", "proposed", "construction"}
                  /\ w.geom = "ST_LineString"}

\* CASE WHEN w.tags->'lanes' ~ '^[0-9]+$' THEN (...)::INTEGER ELSE NULL END
LanesOf(tags) ==
    IF "lanes" \in DOMAIN tags /\ tags.lanes # "7x" THEN ParseInt(tags.lanes) ELSE {}

\* the row the INSERT ... SELECT builds for a way.  The column list of the
\* INSERT has no id, and osm_roads.id is BIGINT PRIMARY KEY without a
\* default: the row's id is NULL ({}).  length_meters is set by the trigger.
ExtractedRow(w) ==
    [ id |-> {},
      d |-> [ osm_id |-> w.id, highway |-> w.tags.highway, state |-> "PA",
              length_meters |-> 300, lanes |-> LanesOf(w.tags),
              x_value_bgn |-> 0 - 77, y_value_bgn |-> 41 ] ]

\* the function body as one statement of the caller: DELETE FROM osm_roads,
\* then the INSERT.  A row with a NULL id violates the primary key's NOT
\* NULL: the INSERT raises, the function's effects (the DELETE) are undone
\* and the table is as before.
ExtractRoadsFromWays(ways, table) ==
    LET rows == {ExtractedRow(w) : w \in SelectedWays(ways)}
    IN IF \E r \in rows : r.id = {}
       THEN [error |-> TRUE, table |-> table]
       ELSE [error |-> FALSE, table |-> rows]

\* SELECT extract_roads_from_ways(); while no import script is running
ExtractRoads ==
    /\ pbf.pc \in {"idle", "exited"}
    /\ \A l \in Loaders : ld[l].pc = "idle"
    /\ LET r == ExtractRoadsFromWays(osmWays, osm)
       IN /\ osm' = r.table
          /\ proc' = IF r.error THEN ScriptFailed("extract")
                     ELSE ScriptCompleted("extract", FALSE)
    /\ UNCHANGED <<committed, loadVars, up, resp, pg, clients, norm, pbf, osmWays, extraVars>>

\* ------------------------------------------- the ingestion runs, one at a time

\* no run of import_pbf_node.js is under way
PbfIdle == pbf.pc \in {"idle", "exited"}

InitImport ==
    /\ csvFile \in 0..NumFiles
    /\ committed \in InitialTables
    /\ nextTxn = 0
    /\ ld = [l \in Loaders |-> IF l = 1 THEN [IdleLd EXCEPT !.pc = "start"] ELSE IdleLd]
    /\ hist = <<>>
    /\ rolledBack = "none"
    /\ lastRead = [done |-> FALSE, rows |-> {}, during |-> FALSE]
    /\ matview = {}
    /\ up = IdleUp
    /\ osm \in OsmTables
    /\ resp = NoResp
    /\ pg = NoPaging
    /\ clients = 0
    /\ proc = NoProc
    /\ norm = NoNorm
    /\ pbf = IdlePbf
    /\ osmWays \in WaysTables
    /\ ExtraIdle

NextImport ==
    \/ \E l \in Loaders : PbfIdle /\ Startup(l)
    \/ \E l \in Loaders : Parsed(l)
    \/ \E l \in Loaders : Connect(l)
    \/ \E l \in Loaders : ConnectFails(l)
    \/ \E l \in Loaders : Begin(l)
    \/ \E l \in Loaders : DeleteStart(l)
    \/ \E l \in Loaders : DeleteFinish(l)
    \/ \E l \in Loaders : Insert(l)
    \/ \E l \in Loaders : QueryFails(l)
    \/ \E l \in Loaders : Commit(l)
    \/ \E l \in Loaders : Rollback(l)
    \/ \E l \in Loaders : RollbackFails(l)
    \/ \E l \in Loaders : Release(l)
    \/ \E l \in Loaders : PbfIdle /\ Alone(l) /\ MigrateStart(l)
    \/ \E l \in Loaders : MigrateRefresh(l)
    \/ \E l \in Loaders : MigrateRefreshFails(l)
    \/ \E l \in Loaders : ProcessExit(l)
    \/ \E exists \in BOOLEAN : (\A l \in Loaders : ld[l].pc = "idle") /\ PbfMain(exists)
    \/ PbfConnect
    \/ PbfConnectFails
    \/ \E roads \in [1..NumRoads -> RoadChoices] : PbfDelete(roads)
    \/ PbfInsert
    \/ PbfQueryFails
    \/ PbfDone
    \/ ExtractRoads

\* the server's startup load, then runs of the migration script, of the PBF
\* script and of the extraction function, never two at once; the CSV file
\* stays readable (a read error is a step of Spec and SpecSeq)
SpecImport == InitImport /\ [][NextImport]_vars

\* ------------------------------------ the two processCSV side by side

\* rows of a CSV given to both functions
MaxRows == 2

\* CSV rows whose cells parse, parse to 0, do not parse, or are missing
CsvRows ==
    { Raw(oid, dist, "1", "52", rough, "5000", xb, "40", xe, "41", "1", "Good", "2010", "U") :
        oid \in {"1", "abc"}, dist \in {"01", Absent}, rough \in {"120", "abc"},
        xb \in {"-75", "0"}, xe \in {"-76", "abc"} }

CsvInputs == UNION {[1..n -> CsvRows] : n \in 0..MaxRows}

InitCsv ==
    /\ csvFile = 0
    /\ committed = {}
    /\ nextTxn = 0
    /\ ld = [l \in Loaders |-> IdleLd]
    /\ hist = <<>>
    /\ rolledBack = "none"
    /\ lastRead = [done |-> FALSE, rows |-> {}, during |-> FALSE]
    /\ matview = {}
    /\ up = IdleUp
    /\ osm = {}
    /\ resp = NoResp
    /\ pg = NoPaging
    /\ clients = 0
    /\ proc = NoProc
    /\ norm \in {[NoNorm EXCEPT !.pc = "given", !.rows = rows] : rows \in CsvInputs}
    /\ pbf = IdlePbf
    /\ osmWays = {}
    /\ ExtraIdle

\* both functions read the file: the cleanData objects built from its rows
\* and what each function resolves with
Normalize ==
    /\ norm.pc = "given"
    /\ norm' = [norm EXCEPT !.pc = "done",
                            !.clean = MapClean(norm.rows),
                            !.server = ServerProcessCSV(norm.rows),
                            !.migrate = MigrateProcessCSV(norm.rows)]
    /\ UNCHANGED <<committed, loadVars, up, queryVars, clients, proc, pbf, osmWays, extraVars>>

NextCsv == Normalize

SpecCsv == InitCsv /\ [][NextCsv]_vars

\* ------------------------------- GET /api/statistics while the table changes
\* The handler awaits its six pool.query calls one after the other, outside
\* any transaction: each statement sees the rows committed when it starts,
\* and a reload may commit between two of them.

\* the request arrives; failing: the keys whose query will reject
StatStart(failing) ==
    /\ server = "up"
    /\ stat.pc = "idle"
    /\ stat' = [pc |-> "loop", k |-> 0, failing |-> failing, results |-> <<>>]
    /\ UNCHANGED <<committed, loadVars, up, queryVars, clients, proc, scriptVars,
                   server, uiVars, parser, wt>>

\* one pass of the for loop: await pool.query(query), results[key] = ...
StatQuery ==
    /\ stat.pc = "loop"
    /\ stat.k < Len(StatKeys)
    /\ stat' = [stat EXCEPT !.k = @ + 1,
                            !.results = @ @@ (StatKeys[stat.k + 1] :>
                                StatResult(StatKeys[stat.k + 1], stat.failing, committed))]
    /\ UNCHANGED <<committed, loadVars, up, queryVars, clients, proc, scriptVars,
                   server, uiVars, parser, wt>>

\* res.json(results)
StatSend ==
    /\ stat.pc = "loop"
    /\ stat.k = Len(StatKeys)
    /\ stat' = [stat EXCEPT !.pc = "sent"]
    /\ UNCHANGED <<committed, loadVars, up, queryVars, clients, proc, scriptVars,
                   server, uiVars, parser, wt>>

\* the startup load and reloads, one at a time, and one statistics request
NextStats ==
    \/ \E l \in Loaders : Startup(l)
    \/ \E l \in Loaders, f \in 1..NumFiles : Alone(l) /\ Change(l, f)
    \/ \E l \in Loaders : Parsed(l)
    \/ \E l \in Loaders : Connect(l)
    \/ \E l \in Loaders : Begin(l)
    \/ \E l \in Loaders : DeleteStart(l)
    \/ \E l \in Loaders : DeleteFinish(l)
    \/ \E l \in Loaders : Insert(l)
    \/ \E l \in Loaders : Commit(l)
    \/ \E l \in Loaders : Release(l)
    \/ \E failing \in {{}, {"by_condition"}} : StatStart(failing)
    \/ StatQuery
    \/ StatSend

SpecStats == Init /\ [][NextStats]_vars

\* ---------------------------------------------------------- the dashboard
\* Header (the heat-map button, the metric select, the search form),
\* RoadDataProvider (fetchRoads, fetchHeatmapData) and MapComponent
\* (HeatmapLayer, searchLocation).  A step is one event handler or promise
\* continuation together with the render React commits after it.

\* clicks on the heat-map button in one behaviour
MaxClicks == 2
\* points in a heat-map response, rows in a roads response
MaxPoints == 1

\* the server and the scripts at rest, with empty tables
BackendIdle ==
    /\ csvFile = 0
    /\ committed = {}
    /\ nextTxn = 0
    /\ ld = [l \in Loaders |-> IdleLd]
    /\ hist = <<>>
    /\ rolledBack = "none"
    /\ lastRead = [done |-> FALSE, rows |-> {}, during |-> FALSE]
    /\ matview = {}
    /\ up = IdleUp
    /\ osm = {}
    /\ resp = NoResp
    /\ pg = NoPaging
    /\ clients = 0
    /\ proc = NoProc
    /\ norm = NoNorm
    /\ pbf = IdlePbf
    /\ osmWays = {}

\* the options of the select
HeatmapTypes == {"condition", "traffic", "age"}

\* (an effect whose cleanup is lost)
RemoveHeatLayerNever(layers, data) == layers

\* the cleanup the HeatmapLayer effect returned for data: map.removeLayer of
\* the layer it added; no cleanup was returned for an empty array
RemoveHeatLayer(layers, data) ==
    IF data.n > 0 /\ Len(layers) > 0 THEN SubSeq(layers, 1, Len(layers) - 1) ELSE layers

\* the HeatmapLayer effect body: L.heatLayer(...).addTo(map) when the
\* array is not empty
AddHeatLayer(layers, data) ==
    IF data.n > 0 THEN Append(layers, data) ELSE layers

\* the heat layers on the map after React commits a render: HeatmapLayer is
\* mounted while showHeatmap is true; its effect's cleanup runs on unmount
\* and before a re-run, and the effect runs on mount and whenever
\* heatmapData is a new array
HeatLayersAfter(layers, wasShown, oldData, isShown, newData, dataSet) ==
    LET cleaned == IF wasShown /\ (~isShown \/ dataSet)
                   THEN RemoveHeatLayer(layers, oldData) ELSE layers
    IN  IF isShown /\ (~wasShown \/ dataSet) THEN AddHeatLayer(cleaned, newData)
        ELSE cleaned

\* onChange of the select: setHeatmapType
SelectType(t) ==
    /\ hdr.heatmapType # t
    /\ hdr' = [hdr EXCEPT !.heatmapType = t]
    /\ UNCHANGED <<committed, loadVars, up, queryVars, clients, proc, scriptVars,
                   server, stat, mapc, ctx, calls, parser, wt>>

\* handleHeatmapToggle from its await (or its start) to its end, for the
\* invocation c: setHeatmapData(newData) if the fetch delivered (dataSet),
\* then setShowHeatmap(!showHeatmap) and the 'toggleHeatmap' event with
\* show: !showHeatmap, which handleToggleHeatmap stores; showHeatmap is the
\* value the invocation's render had
FinishToggle(c, newData, dataSet) ==
    LET afterData == HeatLayersAfter(mapc.layers, mapc.showHeatmap, ctx.heatmapData,
                                     mapc.showHeatmap, newData, dataSet)
    IN  /\ ctx' = [ctx EXCEPT !.heatmapData = newData]
        /\ hdr' = [hdr EXCEPT !.showHeatmap = ~c.show, !.done = @ + 1]
        /\ mapc' = [mapc EXCEPT !.showHeatmap = ~c.show,
                                !.layers = HeatLayersAfter(afterData, mapc.showHeatmap, newData,
                                                           ~c.show, newData, FALSE)]

\* a click on the heat-map button (enabled while loading is false): the
\* handler of the latest render runs; with the overlay hidden it calls
\* fetchHeatmapData(heatmapType) and awaits it, with the overlay shown it
\* runs to its end at once
ClickHeatmap ==
    /\ ~ctx.loading
    /\ hdr.done + Len(calls) < MaxClicks
    /\ IF hdr.showHeatmap
       THEN /\ FinishToggle([type |-> hdr.heatmapType, show |-> TRUE, pc |-> "sync"],
                            ctx.heatmapData, FALSE)
            /\ UNCHANGED calls
       ELSE /\ calls' = Append(calls, [type |-> hdr.heatmapType, show |-> FALSE, pc |-> "osm"])
            /\ UNCHANGED <<hdr, mapc, ctx>>
    /\ UNCHANGED <<committed, loadVars, up, queryVars, clients, proc, scriptVars,
                   server, stat, parser, wt>>

\* calls without its i-th element
Without(q, i) == SubSeq(q, 1, i - 1) \o SubSeq(q, i + 1, Len(q))

\* GET /api/heatmap?data_source=osm&type=... settles for invocation i: with
\* a response its data is stored and the handler goes on, with an error the
\* fallback request is sent
HeatmapOsmResponds(i, ok, n) ==
    /\ i \in 1..Len(calls)
    /\ calls[i].pc = "osm"
    /\ IF ok
       THEN /\ FinishToggle(calls[i], [type |-> calls[i].type, n |-> n], TRUE)
            /\ calls' = Without(calls, i)
       ELSE /\ calls' = [calls EXCEPT ![i].pc = "fallback"]
            /\ UNCHANGED <<hdr, mapc, ctx>>
    /\ UNCHANGED <<committed, loadVars, up, queryVars, clients, proc, scriptVars,
                   server, stat, parser, wt>>

\* GET /api/heatmap?type=... settles: its data is stored, or the error is
\* logged and heatmapData stays; fetchHeatmapData resolves either way
HeatmapFallbackResponds(i, ok, n) ==
    /\ i \in 1..Len(calls)
    /\ calls[i].pc = "fallback"
    /\ IF ok THEN FinishToggle(calls[i], [type |-> calls[i].type, n |-> n], TRUE)
       ELSE FinishToggle(calls[i], ctx.heatmapData, FALSE)
    /\ calls' = Without(calls, i)
    /\ UNCHANGED <<committed, loadVars, up, queryVars, clients, proc, scriptVars,
                   server, stat, parser, wt>>

\* (setLoading(false) at the end of the try block only)
LoadingClearedInTry(ok) == ~ok

\* the finally block of fetchRoads: setLoading(false)
FinallyLoading(ok) == FALSE

\* the provider's mount effect: fetchRoads() up to its first await
FetchRoads ==
    /\ ctx.pc = "idle"
    /\ ctx' = [ctx EXCEPT !.loading = TRUE, !.pc = "osm"]
    /\ UNCHANGED <<committed, loadVars, up, queryVars, clients, proc, scriptVars,
                   server, stat, hdr, mapc, calls, parser, wt>>

\* GET /api/osm-roads?state=PA&limit=10000 settles
RoadsOsmResponds(ok, n) ==
    /\ ctx.pc = "osm"
    /\ ctx' = IF ok
              THEN [ctx EXCEPT !.roads = [from |-> "osm", n |-> n], !.pc = "done",
                               !.loading = FinallyLoading(TRUE),
                               !.requests = Append(@, [url |-> "/api/osm-roads", ok |-> TRUE])]
              ELSE [ctx EXCEPT !.pc = "fallback",
                               !.requests = Append(@, [url |-> "/api/osm-roads", ok |-> FALSE])]
    /\ UNCHANGED <<committed, loadVars, up, queryVars, clients, proc, scriptVars,
                   server, stat, hdr, mapc, calls, parser, wt>>

\* GET /api/roads?limit=10000 settles
RoadsFallbackResponds(ok, n) ==
    /\ ctx.pc = "fallback"
    /\ ctx' = [ctx EXCEPT !.roads = IF ok THEN [from |-> "csv", n |-> n] ELSE @,
                          !.pc = "done",
                          !.loading = FinallyLoading(ok),
                          !.requests = Append(@, [url |-> "/api/roads", ok |-> ok])]
    /\ UNCHANGED <<committed, loadVars, up, queryVars, clients, proc, scriptVars,
                   server, stat, hdr, mapc, calls, parser, wt>>

\* what the search box may hold at a submit
SearchQueries == {"  ", "Pittsburgh"}

\* String.prototype.trim on those
Trim(q) == IF q = "  " THEN "" ELSE q

\* the search form is submitted: handleSearch dispatches 'searchLocation'
\* for a query that is not blank and searchLocation sends its request
SearchSubmit(q) ==
    /\ mapc.search # "pending"
    /\ mapc' = IF Trim(q) = "" THEN mapc
               ELSE [mapc EXCEPT !.search = "pending", !.query = Trim(q)]
    /\ UNCHANGED <<committed, loadVars, up, queryVars, clients, proc, scriptVars,
                   server, stat, hdr, ctx, calls, parser, wt>>

\* how the geocoding request can end: fetch rejects, response.json()
\* rejects, an empty array, an array with a place
SearchOutcomes == {"network error", "not json", "no result", "result"}

\* (a failed search puts the view back to the initial one)
SearchViewResetOnFailure(view, outcome, map) ==
    IF outcome = "result" /\ map THEN [center |-> "result", zoom |-> 12] ELSE InitialView

\* map.setView([lat, lon], 12) under data.length > 0 && map
SearchView(view, outcome, map) ==
    IF outcome = "result" /\ map THEN [center |-> "result", zoom |-> 12] ELSE view

\* the geocoding request settles and searchLocation runs to its end
SearchResponds(outcome) ==
    /\ mapc.search = "pending"
    /\ mapc' = [mapc EXCEPT !.search = outcome,
                            !.view = SearchView(mapc.view, outcome, mapc.map)]
    /\ UNCHANGED <<committed, loadVars, up, queryVars, clients, proc, scriptVars,
                   server, stat, hdr, ctx, calls, parser, wt>>

InitUi ==
    /\ BackendIdle
    /\ server = "up"
    /\ stat = NoStat
    /\ hdr = HeaderMounted
    /\ mapc \in {MapMounted(TRUE), MapMounted(FALSE)}
    /\ ctx = ProviderMounted
    /\ calls = <<>>
    /\ parser = IdleParser
    /\ wt = NoWeight

NextUi ==
    \/ \E t \in HeatmapTypes : SelectType(t)
    \/ ClickHeatmap
    \/ \E i \in 1..MaxClicks, ok \in BOOLEAN, n \in 0..MaxPoints : HeatmapOsmResponds(i, ok, n)
    \/ \E i \in 1..MaxClicks, ok \in BOOLEAN, n \in 0..MaxPoints : HeatmapFallbackResponds(i, ok, n)
    \/ FetchRoads
    \/ \E ok \in BOOLEAN, n \in 0..MaxPoints : RoadsOsmResponds(ok, n)
    \/ \E ok \in BOOLEAN, n \in 0..MaxPoints : RoadsFallbackResponds(ok, n)
    \/ \E q \in SearchQueries : SearchSubmit(q)
    \/ \E outcome \in SearchOutcomes : SearchResponds(outcome)

SpecUi == InitUi /\ [][NextUi]_vars

\* ---------------------------------------------------------- getRoadWeight
\* (MapComponent.js RoadLayer; the copy in the second RoadLayer is the same)
\* Weights are in tenths of a pixel: 35 is 3.5.  A number that may be
\* missing is {n}, or {} for undefined / null.

\* the largest lane count of a road
MaxLanes == 6

Max(a, b) == IF a >= b THEN a ELSE b

\* lanes || laneCnt || 1
LaneCount(lanes, laneCnt) ==
    IF lanes # {} /\ lanes # {0} THEN CHOOSE n \in lanes : TRUE
    ELSE IF laneCnt # {} /\ laneCnt # {0} THEN CHOOSE n \in laneCnt : TRUE
    ELSE 1

\* the switch on highway
HighwayWeight(highway, laneCount) ==
    CASE highway \in {"motorway", "motorway_link"} -> Max(40, laneCount * 8)
      [] highway \in {"trunk", "trunk_link"} -> Max(35, laneCount * 7)
      [] highway \in {"primary", "primary_link"} -> Max(30, laneCount * 6)
      [] highway \in {"secondary", "secondary_link"} -> Max(25, laneCount * 5)
      [] highway \in {"tertiary", "tertiary_link"} -> Max(20, laneCount * 4)
      [] highway \in {"residential", "unclassified"} -> Max(15, laneCount * 3)
      [] OTHER -> Max(10, laneCount * 2)

\* the switch on facType; laneCnt is a number on the rows of /api/roads
FacTypeWeight(facType, laneCnt) ==
    LET n == CHOOSE k \in laneCnt : TRUE
    IN  CASE facType = "1" -> Max(30, n * 8)
          [] facType = "2" -> Max(25, n * 7)
          [] facType = "3" -> Max(20, n * 6)
          [] facType = "4" -> Max(15, n * 5)
          [] facType = "5" -> Max(10, n * 4)
          [] OTHER -> Max(10, n * 3)

getRoadWeight(facType, laneCnt, highway, lanes) ==
    IF highway # Absent /\ highway # ""
    THEN HighwayWeight(highway, LaneCount(lanes, laneCnt))
    ELSE FacTypeWeight(facType, laneCnt)

\* the rows RoadLayer draws: rows of /api/osm-roads (highway, lanes that may
\* be null, no lane_cnt) and rows of /api/roads (fac_type, lane_cnt)
OsmRoads ==
    [ fac_type : {Absent}, lane_cnt : {{}},
      highway : {"motorway", "motorway_link", "trunk", "trunk_link", "primary",
                 "primary_link", "secondary", "secondary_link", "tertiary",
                 "tertiary_link", "residential", "unclassified", "service"},
      lanes : {{}} \cup {{n} : n \in 0..MaxLanes} ]

CsvRoads ==
    [ fac_type : {"1", "2", "3", "4", "5", "9", ""},
      lane_cnt : {{n} : n \in 0..MaxLanes},
      highway : {Absent}, lanes : {{}} ]

InitWeight ==
    /\ BackendIdle
    /\ server = "up"
    /\ stat = NoStat
    /\ hdr = HeaderMounted
    /\ mapc = MapMounted(TRUE)
    /\ ctx = ProviderMounted
    /\ calls = <<>>
    /\ parser = IdleParser
    /\ wt \in {[NoWeight EXCEPT !.pc = "given", !.road = road] : road \in OsmRoads \cup CsvRoads}

\* RoadLayer computes the weight of the road's Polyline
RoadWeight ==
    /\ wt.pc = "given"
    /\ wt' = [wt EXCEPT !.pc = "done",
                        !.weight = getRoadWeight(wt.road.fac_type, wt.road.lane_cnt,
                                                 wt.road.highway, wt.road.lanes)]
    /\ UNCHANGED <<committed, loadVars, up, queryVars, clients, proc, scriptVars,
                   server, stat, uiVars, parser>>

NextWeight == RoadWeight

SpecWeight == InitWeight /\ [][NextWeight]_vars

\* -------------------------------------------- PBFParser (import_pbf_node.js)
\* A buffer is a sequence of bytes; buffer[k + 1] is the code's buffer[k].
\* A 32-bit integer of the bitwise operators is the set of its bits that
\* are 1 (bit 31 is the sign); the numbers it stands for stay in range.

\* the longest buffer
MaxLen == 5

\* bytes that make the cases: a zero, small lengths, a payload with bit 3
\* set, a continuation byte without payload and one with all payload bits
Bytes == {0, 1, 2, 8, 128, 255}

Buffers == UNION {[1..n -> Bytes] : n \in 0..MaxLen}

\* byte & 0x7F, as bits
PayloadBits(byte) == {j \in 0..6 : ((byte % 128) \div (2 ^ j)) % 2 = 1}

\* x << shift on 32 bits: the count is taken modulo 32 and the bits moved
\* past bit 31 are lost
ShiftLeft(bits, shift) == {i + (shift % 32) : i \in bits} \cap (0..31)

\* a | b
BitOr(a, b) == a \cup b

\* the number a non-negative 32-bit integer stands for
RECURSIVE IntOf(_)
IntOf(bits) ==
    IF bits = {} THEN 0
    ELSE LET i == CHOOSE k \in bits : TRUE IN 2 ^ i + IntOf(bits \ {i})

\* blockSize <= 0
NotPositive(bits) == bits = {} \/ 31 \in bits

\* readVarint from position, with result and shift so far: the while loop
RECURSIVE ReadVarintLoop(_, _, _, _)
ReadVarintLoop(buffer, position, result, shift) ==
    IF position < Len(buffer)
    THEN LET byte == buffer[position + 1]
             next == BitOr(result, ShiftLeft(PayloadBits(byte), shift))
         IN  IF byte < 128 THEN [result |-> next, position |-> position + 1]
             ELSE ReadVarintLoop(buffer, position + 1, next, shift + 7)
    ELSE [result |-> result, position |-> position]

readVarint(buffer, position) == ReadVarintLoop(buffer, position, {}, 0)

\* (a readBlock that does not test the block against the buffer's end)
BlockFitsAlways(size, position, length) == TRUE

\* not (this.position + blockSize > this.buffer.length), for blockSize > 0
BlockFits(size, position, length) ==
    /\ \A i \in size : i <= 20
    /\ IntOf(size) <= length - position

\* readBlock: the position it leaves, the varint it read and the block it
\* returns (null, or the slice from..to)
readBlock(buffer, position) ==
    IF position >= Len(buffer)
    THEN [position |-> position,
          varint |-> [from |-> position, to |-> position, result |-> {}],
          block |-> [null |-> TRUE, from |-> 0, to |-> 0, size |-> {}]]
    ELSE LET v == readVarint(buffer, position)
             vi == [from |-> position, to |-> v.position, result |-> v.result]
         IN  IF NotPositive(v.result) \/ ~BlockFits(v.result, v.position, Len(buffer))
             THEN [position |-> v.position, varint |-> vi,
                   block |-> [null |-> TRUE, from |-> 0, to |-> 0, size |-> v.result]]
             ELSE [position |-> v.position + IntOf(v.result), varint |-> vi,
                   block |-> [null |-> FALSE, from |-> v.position,
                              to |-> v.position + IntOf(v.result), size |-> v.result]]

\* parse() after readFileSync: position = 0
InitPbf ==
    /\ BackendIdle
    /\ server = "up"
    /\ stat = NoStat
    /\ hdr = HeaderMounted
    /\ mapc = MapMounted(TRUE)
    /\ ctx = ProviderMounted
    /\ calls = <<>>
    /\ parser \in {[IdleParser EXCEPT !.pc = "loop", !.buffer = buffer] : buffer \in Buffers}
    /\ wt = NoWeight

\* one pass of the while loop of parse: readBlock, and processBlock (which
\* does nothing) for a block
ParseIteration ==
    /\ parser.pc = "loop"
    /\ parser.position < Len(parser.buffer)
    /\ LET r == readBlock(parser.buffer, parser.position)
       IN  parser' = [parser EXCEPT !.before = parser.position,
                                    !.position = r.position,
                                    !.iterations = @ + 1,
                                    !.varint = r.varint,
                                    !.block = r.block]
    /\ UNCHANGED <<committed, loadVars, up, queryVars, clients, proc, scriptVars,
                   server, stat, uiVars, wt>>

\* the loop condition fails: parse returns
ParseReturns ==
    /\ parser.pc = "loop"
    /\ parser.position >= Len(parser.buffer)
    /\ parser' = [parser EXCEPT !.pc = "done"]
    /\ UNCHANGED <<committed, loadVars, up, queryVars, clients, proc, scriptVars,
                   server, stat, uiVars, wt>>

NextPbf == ParseIteration \/ ParseReturns

SpecPbf == InitPbf /\ [][NextPbf]_vars

\* ------------------------------------------------------------ claims

FourCoordinates(c) ==
    c.x_value_bgn # 0 /\ c.y_value_bgn # 0 /\ c.x_value_end # 0 /\ c.y_value_end # 0

Last(q) == q[Len(q)]

\* C1: every row of road_segments has four non-zero coordinates, whichever
\* load path stored it (a row with a zero or unparseable X_VALUE_END or
\* Y_VALUE_END is never stored).
C1_OnlyFourCoordinateRows == \A r \in committed : FourCoordinates(r.d)

\* the row sets a read may return if every load is seen whole: the table
\* before any load, or the kept rows of one file
CompleteRowSets ==
    {ReadRows(t) : t \in InitialTables}
    \cup {SeqToSet(ProcessCSV(k, Files[f])) : k \in {"server", "migrate"}, f \in 1..NumFiles}

\* C2: a read issued while a reload is in progress returns the complete row
\* set of before or after a reload, never a partial or mixed table.
C2_ReadSeesCompleteSet ==
    (lastRead.done /\ lastRead.during) => lastRead.rows \in CompleteRowSets

\* C3: once all loads have finished, road_segments holds the rows of exactly
\* one load, each once.
C3_OneLoadsRows ==
    ((\A l \in Loaders : ld[l].pc = "idle") /\ hist # <<>>)
        => \E k \in 1..Len(hist) :
              committed = RowsOf(hist[k].txn, ProcessCSV(hist[k].kind, Files[hist[k].file]), 1)

\* C4: after any number of sequential runs the row count is that of one run
\* of the last input: the number of rows processCSV kept, never more.
C4_RerunSameCount ==
    hist # <<>> =>
        LET e == Last(hist)
        IN Cardinality(committed) = Len(ProcessCSV(e.kind, Files[e.file]))

\* two runs of the same path on the same file have committed one after the
\* other, and the file has rows to keep
C4_Witness ==
    /\ Len(hist) >= 2
    /\ hist[Len(hist)].file = hist[Len(hist) - 1].file
    /\ hist[Len(hist)].kind = hist[Len(hist) - 1].kind
    /\ Len(ProcessCSV(Last(hist).kind, Files[Last(hist).file])) >= 2
    /\ \A l \in Loaders : ld[l].pc = "idle"

\* C5: a failed query of a load leads to ROLLBACK, the ROLLBACK leaves the
\* committed table as it was, the table changes only by a COMMIT, and COMMIT
\* is reached only with every row inserted.
C5_FailedLoadRollsBack ==
    [][ /\ \A l \in Loaders :
             /\ (ld[l].pc = "insert" /\ ld'[l].pc \notin {"insert", "commit"})
                   => ld'[l].pc = "rollback"
             /\ (ld[l].pc = "rollback" /\ ld'[l].pc # "rollback")
                   => (committed' = committed /\ hist' = hist)
             /\ ld'[l].pc = "commit"
                   => Cardinality(ld'[l].ins) = Len(ld'[l].data)
        /\ committed' # committed
             => \E l \in Loaders : ld[l].pc = "commit" /\ ld'[l].pc # "rollback"
      ]_vars

\* a load that had deleted rows and inserted some, but not all, of its own
\* has been rolled back and the table holds what it held
C5_Witness ==
    /\ rolledBack = "partial"
    /\ hist = <<>>
    /\ committed \in InitialTables
    /\ committed # {}
    /\ \A l \in Loaders : ld[l].pc = "idle"

\* C6: an upload carrying a parseable CSV replaces the table by the file's
\* kept rows, removes the temporary file and answers with the row count.
C6_UploadReplaces ==
    (up.pc = "done" /\ up.file # 0) =>
        /\ up.status = 200
        /\ ~up.tmp
        /\ ReadRows(committed) = SeqToSet(ServerProcessCSV(Files[up.file]))

\* the limit of a request as a number
LimitOf(q) == IF q.limit = Absent THEN 10000 ELSE TheOne(ParseInt(q.limit))

\* C7: a request with an integer limit L >= 0 and offset O >= 0 is answered
\* (when the database can be reached and min_condition is a number) with an
\* array of at most L rows (10000 without limit), each a row of
\* road_segments.
C7_AtMostLimitRows ==
    (resp.ep = "roads" /\ resp.q.limit # "abc") =>
        /\ (resp.q.min_condition # "abc" /\ resp.db # "connect ECONNREFUSED")
              => resp.status = 200
        /\ resp.status = 200 =>
              /\ Len(resp.rows) <= LimitOf(resp.q)
              /\ \A k \in 1..Len(resp.rows) : resp.rows[k] \in committed

\* a limit smaller than the number of rows left after the offset cuts the
\* answer short
C7_Witness ==
    /\ resp.ep = "roads" /\ resp.status = 200
    /\ resp.q.limit = "1" /\ resp.q.offset = "2"
    /\ Cardinality(committed) = 4
    /\ resp.q = [NoFilters EXCEPT !.limit = "1", !.offset = "2"]
    /\ Len(resp.rows) = 1

RECURSIVE Flatten(_)
Flatten(ss) == IF ss = <<>> THEN <<>> ELSE Head(ss) \o Flatten(Tail(ss))

\* C8: the pages (offset 0, limit L), (offset L, limit L), ... of an
\* unchanged table are pairwise disjoint and together hold every matching
\* row exactly once.
C8_PagesPartitionMatches ==
    pg.done =>
        LET all == Flatten(pg.pages)
            matching == {r \in committed :
                           QTruthy(pg.q.fac_type) => r.d.fac_type = pg.q.fac_type}
        IN /\ \A a, b \in 1..Len(all) : a # b => all[a] # all[b]
           /\ SeqToSet(all) = Ids(matching)

\* C9: every returned row satisfies every supplied filter, and each
\* placeholder of the statement is bound to the value of its own clause.
C9_FiltersConjunctive ==
    (resp.ep = "roads" /\ resp.status = 200) =>
        /\ \A k \in 1..Len(resp.rows) :
             LET d == resp.rows[k].d
                 q == resp.q
             IN /\ QTruthy(q.fac_type) => d.fac_type = q.fac_type
                /\ QTruthy(q.surf_type) => d.surf_type = q.surf_type
                /\ QTruthy(q.district_no) => d.district_no = q.district_no
                /\ QTruthy(q.urban_rural) => d.urban_rural = q.urban_rural
                /\ QTruthy(q.min_condition) => d.rough_indx >= TheOne(ParseFloat(q.min_condition))
                /\ QTruthy(q.max_condition) => d.rough_indx <= TheOne(ParseFloat(q.max_condition))
        /\ LET bq == BuildRoadsQuery(resp.q)
           IN \A k \in 1..Len(bq.where) :
                 /\ bq.where[k].ph = k
                 /\ bq.params[bq.where[k].ph] = resp.q[bq.where[k].param]

\* two equality filters and both condition bounds are supplied, the table
\* holds rows that fail them, and a row is returned
C9_Witness ==
    /\ resp.ep = "roads" /\ resp.status = 200
    /\ resp.q.district_no = "02" /\ resp.q.urban_rural = "R"
    /\ resp.q.max_condition = "55" /\ resp.q.fac_type = Absent
    /\ resp.q.min_condition = Absent
    /\ Cardinality(committed) = 4
    /\ Len(resp.rows) = 1

Count(seq, v) == Cardinality({k \in 1..Len(seq) : seq[k] = v})

\* what the condition statement selects from a table, row by row
ConditionTriple(r, source) ==
    [ x_value_bgn |-> r.d.x_value_bgn, y_value_bgn |-> r.d.y_value_bgn,
      value |-> IF source = "osm" THEN r.d.length_meters ELSE r.d.rough_indx ]

ConditionRows(source) ==
    IF source = "osm"
    THEN {r \in osm : r.d.length_meters > 0 /\ r.d.state = "PA"}
    ELSE {r \in committed : r.d.rough_indx > 0}

\* C10: for either data source, a type other than traffic and age (absent,
\* empty, unknown) is answered, when the query resolves, with the rows of
\* the condition statement.
C10_UnknownTypeIsCondition ==
    (resp.ep = "heatmap" /\ resp.db = "" /\ resp.q.type \notin {"traffic", "age"}) =>
        LET source == IF resp.q.data_source = "osm" THEN "osm" ELSE "csv"
            want == ConditionRows(source)
        IN /\ Len(resp.rows) = Cardinality(want)
           /\ \A r \in want :
                 Count(resp.rows, ConditionTriple(r, source))
                   = Cardinality({x \in want : ConditionTriple(x, source) = ConditionTriple(r, source)})

\* an unknown type on road_segments holding a row the condition statement
\* leaves out (rough_indx 0) and one the traffic statement leaves out
C10_Witness ==
    /\ resp.ep = "heatmap" /\ resp.q.type = "bogus" /\ resp.q.data_source = Absent
    /\ resp.status = 200
    /\ Cardinality(committed) = 4
    /\ Len(resp.rows) = 3

\* C11: GET /api/statistics answers 200 with all six keys; the keys whose
\* query failed hold an empty array, the others their query's rows, and all
\* six queries are executed whatever failed.
C11_StatisticsDegrades ==
    resp.ep = "statistics" =>
        /\ resp.status = 200
        /\ resp.sent = 1
        /\ DOMAIN resp.rows = SeqToSet(StatKeys)
        /\ \A key \in SeqToSet(StatKeys) :
              resp.rows[key] = IF key \in resp.q THEN {} ELSE StatRows(key, committed)
        /\ resp.executed = StatKeys

\* the second and the fifth query fail on a table of four rows; the first
\* and the third still give their rows
C11_Witness ==
    /\ resp.ep = "statistics"
    /\ resp.q = {"total_miles", "by_condition"}
    /\ Cardinality(committed) = 4
    /\ resp.rows["total_segments"] = {[count |-> 4]}
    /\ resp.rows["total_miles"] = {}
    /\ Cardinality(resp.rows["by_fac_type"]) = 2

\* C12: on the three row endpoints a rejected query is answered with 500
\* and the query's own error message, a resolved one with 200 and no error;
\* each request is answered once.
C12_RejectedQueryIs500 ==
    resp.ep \in {"roads", "osm-roads", "heatmap"} =>
        /\ resp.sent = 1
        /\ resp.db # "" => (resp.status = 500 /\ resp.error = resp.db /\ resp.rows = <<>>)
        /\ resp.db = "" => (resp.status = 200 /\ resp.error = "")
        /\ (resp.ep # "heatmap" /\ resp.q.limit = "abc") => resp.status = 500

\* a limit that is no number makes PostgreSQL reject the osm-roads statement
C12_Witness ==
    /\ resp.ep = "osm-roads"
    /\ resp.q.limit = "abc"
    /\ resp.status = 500
    /\ resp.error = "invalid input syntax for type bigint: \"NaN\""

\* C13: every row GET /api/osm-roads returns is a row of osm_roads with the
\* requested state ('PA' without the parameter) and, when highway is given
\* and not empty, that highway; there are at most limit rows (10000 without).
C13_OsmRoadsFiltered ==
    (resp.ep = "osm-roads" /\ resp.status = 200) =>
        /\ \A k \in 1..Len(resp.rows) :
              /\ resp.rows[k] \in osm
              /\ resp.rows[k].d.state = (IF resp.q.state = Absent THEN "PA" ELSE resp.q.state)
              /\ QTruthy(resp.q.highway) => resp.rows[k].d.highway = resp.q.highway
        /\ Len(resp.rows) <= LimitOf(resp.q)

\* a highway is asked for without state and limit, on a table with roads
\* of other highways
C13_Witness ==
    /\ resp.ep = "osm-roads" /\ resp.status = 200
    /\ resp.q = [highway |-> "primary", state |-> Absent, limit |-> Absent, offset |-> Absent]
    /\ Cardinality(osm) = 3
    /\ Len(resp.rows) = 1

\* C14: a script run that met a failure ends with status 1 and without the
\* success line: the PBF script whose run failed, and the migration, which
\* ends with status 0 only with its load committed and the view refreshed.
C14_FailedRunExitsNonZero ==
    /\ (proc.script = "pbf" /\ proc.failed) => (proc.status = 1 /\ ~proc.success)
    /\ \A l \in Loaders :
          ld[l].pc = "exit 0" =>
              /\ hist # <<>>
              /\ Last(hist).kind = "migrate"
              /\ matview = ReadRows(committed)

\* C15: the two processCSV functions return the same rows for every CSV.
C15_SameNormalization ==
    norm.pc = "done" => norm.server = norm.migrate

\* C16: the clients checked out are those of the loads between connect and
\* finally (each released once: the count never runs ahead or behind), and
\* none is checked out once every load has completed.
C16_ClientsReleased ==
    /\ clients = Cardinality({l \in Loaders : HoldsClient(l)})
                   + (IF pbf.pc \in {"delete", "insert"} THEN 1 ELSE 0)
    /\ ((\A l \in Loaders : ld[l].pc = "idle") /\ PbfIdle) => clients = 0

\* a load whose ROLLBACK was rejected and a PBF run whose insert failed have
\* both completed, and no client is checked out
C16_Witness ==
    /\ rolledBack = "lost"
    /\ proc = ScriptFailed("pbf")
    /\ pbf.pc = "exited" /\ pbf.failedAt >= 1
    /\ \A l \in Loaders : ld[l].pc = "idle"
    /\ clients = 0

\* C17: once a load of road_segments has committed and no load is running,
\* road_statistics holds what a refresh after that commit computes.
C17_ViewRefreshedAfterLoad ==
    ((\A l \in Loaders : ld[l].pc = "idle") /\ hist # <<>>)
        => matview = ReadRows(committed)

\* C18: after a run of generatePennsylvaniaRoads whose k-th INSERT failed,
\* osm_roads holds the k-1 rows the run inserted and no other, the run's
\* client is released and the error has reached the caller.
C18_PartialImportStays ==
    (proc.script = "pbf" /\ pbf.pc = "exited" /\ pbf.failedAt >= 1) =>
        /\ osm = GeneratedRows(pbf.roads, pbf.failedAt - 1)
        /\ clients = Cardinality({l \in Loaders : HoldsClient(l)})
        /\ proc = ScriptFailed("pbf")

\* the second INSERT failed: one generated row is in the table
C18_Witness ==
    /\ proc = ScriptFailed("pbf")
    /\ pbf.pc = "exited" /\ pbf.failedAt = 2
    /\ osm = GeneratedRows(pbf.roads, 1)
    /\ clients = 0

\* C19: after extract_roads_from_ways, osm_roads holds one row for each way
\* with a usable highway tag and a LineString geometry, and nothing else.
C19_ExtractRebuilds ==
    proc.script = "extract" =>
        /\ Cardinality(osm) = Cardinality(SelectedWays(osmWays))
        /\ \A w \in SelectedWays(osmWays) : \E r \in osm : r.d = ExtractedRow(w).d

\* the rows of a CSV whose four coordinates are non-zero numbers
GoodRows(clean) == {k \in 1..Len(clean) : FourCoordinates(clean[k])}

\* a failed coercion of a non-coordinate column costs no row: every row with
\* four good coordinates is kept
KeepsGoodRows ==
    /\ Len(norm.migrate) = Cardinality(GoodRows(norm.clean))
    /\ \A k \in GoodRows(norm.clean) :
          /\ norm.clean[k] \in SeqToSet(norm.migrate)
          /\ norm.clean[k] \in SeqToSet(norm.server)

\* a numeric or text cell that does not coerce gives 0 or ''
DefaultsOfRow(raw, c) ==
    /\ ParseFloat(raw.ROUGH_INDX) = {} => c.rough_indx = 0
    /\ ParseFloat(raw.X_VALUE_BGN) = {} => c.x_value_bgn = 0
    /\ ParseFloat(raw.X_VALUE_END) = {} => c.x_value_end = 0
    /\ raw.DISTRICT_NO = Absent => c.district_no = ""

\* C20 as stated: every failed coercion gives 0 or '', objectid included,
\* and costs no row.
C20_FailedCoercionDefaults ==
    norm.pc = "done" =>
        /\ \A k \in 1..Len(norm.rows) :
              /\ DefaultsOfRow(norm.rows[k], norm.clean[k])
              /\ ParseInt(norm.rows[k].OBJECTID) = {} => norm.clean[k].objectid = {0}
        /\ KeepsGoodRows

\* C20 amended: a failed coercion gives 0 (numeric columns), '' (text
\* columns) or, for objectid, null; it costs no row.
C20_FailedCoercionDefaultsOrNull ==
    norm.pc = "done" =>
        /\ \A k \in 1..Len(norm.rows) :
              /\ DefaultsOfRow(norm.rows[k], norm.clean[k])
              /\ ParseInt(norm.rows[k].OBJECTID) = {} => norm.clean[k].objectid = {}
        /\ KeepsGoodRows

\* a row whose OBJECTID and ROUGH_INDX do not parse and whose DISTRICT_NO is
\* missing is kept by both functions
C20_Witness ==
    /\ norm.pc = "done"
    /\ Len(norm.rows) = 1
    /\ norm.rows[1].OBJECTID = "abc"
    /\ norm.rows[1].ROUGH_INDX = "abc"
    /\ norm.rows[1].DISTRICT_NO = Absent
    /\ Len(norm.migrate) = 1 /\ Len(norm.server) = 1
    /\ norm.migrate[1].objectid = {} /\ norm.migrate[1].rough_indx = 0

\* C21: whenever the overlay is visible (the toggle-on event comes after
\* the handler's fetch has settled), the heatmapData on display was fetched
\* for the metric type selected in the header.
C21_OverlayShowsSelectedType ==
    mapc.showHeatmap => ctx.heatmapData.type = hdr.heatmapType

\* C23: a search that ends without a result, or without a map instance,
\* changes nothing but the search's own progress; a search recentres the
\* view, at zoom 12, only with a result and a map instance.
C23_FailedSearchNoEffect ==
    [][ (mapc.search = "pending" /\ mapc'.search # "pending") =>
            /\ mapc' = [mapc EXCEPT !.search = mapc'.search, !.view = mapc'.view]
            /\ UNCHANGED <<hdr, ctx, calls>>
            /\ IF mapc'.search = "result" /\ mapc.map
               THEN mapc'.view = [center |-> "result", zoom |-> 12]
               ELSE mapc'.view = mapc.view ]_vars

\* a search failed after an earlier one had recentred the view: the view
\* is still the recentred one
C23_Witness ==
    /\ mapc.search = "network error"
    /\ mapc.view = [center |-> "result", zoom |-> 12]

\* C25: once every click's handler has run to its end, the header's and
\* the map's showHeatmap are equal and true iff the clicks are odd in number.
C25_EachClickFlipsOnce ==
    calls = <<>> =>
        /\ hdr.showHeatmap = mapc.showHeatmap
        /\ hdr.showHeatmap = (hdr.done % 2 = 1)

\* C26: the map carries at most one heat layer, one exactly when
\* showHeatmap is true and heatmapData is not empty, and that layer is the
\* one made from the current heatmapData.
C26_OneHeatLayer ==
    /\ Len(mapc.layers) <= 1
    /\ Len(mapc.layers) = 1 <=> (mapc.showHeatmap /\ ctx.heatmapData.n > 0)
    /\ Len(mapc.layers) = 1 => mapc.layers[1] = ctx.heatmapData

\* two handlers have ended with the overlay shown (the second stored its
\* data while the first one's layer was on the map), and one layer is there
C26_Witness ==
    /\ hdr.done = 2
    /\ mapc.showHeatmap
    /\ ctx.heatmapData = [type |-> "traffic", n |-> 1]
    /\ mapc.layers = <<[type |-> "traffic", n |-> 1]>>
    /\ calls = <<>>

\* C27: loading is true while fetchRoads runs and false once it has ended;
\* /api/roads is requested only after /api/osm-roads has failed; roads holds
\* the data of the response that succeeded, and its initial value when none did.
C27_FetchRoadsSettles ==
    /\ ctx.pc \in {"osm", "fallback"} => ctx.loading
    /\ ctx.pc \in {"idle", "done"} => ~ctx.loading
    /\ \A k \in 1..Len(ctx.requests) :
          ctx.requests[k].url = "/api/roads" =>
              (k = 2 /\ ctx.requests[1] = [url |-> "/api/osm-roads", ok |-> FALSE])
    /\ ctx.pc = "done" =>
          IF \E k \in 1..Len(ctx.requests) : ctx.requests[k].ok
          THEN ctx.roads.from = (IF ctx.requests[1].ok THEN "osm" ELSE "csv")
          ELSE ctx.roads = ProviderMounted.roads /\ Len(ctx.requests) = 2

\* both requests failed and fetchRoads has ended
C27_Witness ==
    /\ ctx.pc = "done"
    /\ ctx.requests = <<[url |-> "/api/osm-roads", ok |-> FALSE], [url |-> "/api/roads", ok |-> FALSE]>>
    /\ ~ctx.loading
    /\ ctx.roads.n = 0

\* C22: a highest-class road (highway motorway or motorway_link, or a CSV
\* row with fac_type '1') gets max(4, 0.8 * lanes), so at least 4, and every
\* road gets at least 1.
C22_HighestClassAtLeastFour ==
    wt.pc = "done" =>
        /\ wt.weight >= 10
        /\ wt.road.highway \in {"motorway", "motorway_link"} =>
              (wt.weight = Max(40, 8 * LaneCount(wt.road.lanes, wt.road.lane_cnt)) /\ wt.weight >= 40)
        /\ (wt.road.highway = Absent /\ wt.road.fac_type = "1") =>
              (wt.weight = Max(40, 8 * LaneCount({}, wt.road.lane_cnt)) /\ wt.weight >= 40)

\* C29: every pass of parse's loop moves position forward, position stays
\* within 0..buffer.length, and a block readBlock returns is the blockSize
\* bytes after its varint, inside the buffer.
C29_ParseAdvances ==
    /\ 0 <= parser.position /\ parser.position <= Len(parser.buffer)
    /\ parser.iterations > 0 => parser.position > parser.before
    /\ parser.iterations <= Len(parser.buffer)
    /\ ~parser.block.null =>
          /\ ~NotPositive(parser.block.size)
          /\ parser.block.to - parser.block.from = IntOf(parser.block.size)
          /\ parser.block.from = parser.varint.to
          /\ parser.block.to <= Len(parser.buffer)
          /\ parser.position = parser.block.to

\* parse has returned after a pass that returned a block and a pass that
\* returned none
C29_Witness ==
    /\ parser.pc = "done"
    /\ parser.iterations >= 2
    /\ parser.block.null
    /\ parser.buffer[1] = 1
    /\ parser.position = Len(parser.buffer)

\* the bits of the sum of (byte & 0x7F) * 128^i over the bytes from..to
\* of the buffer
VarintBits(buffer, from, to) ==
    UNION {{7 * (k - from) + j : j \in PayloadBits(buffer[k + 1])} : k \in from..(to - 1)}

\* C30: the number readVarint returns is the sum of (byte_i & 0x7F) * 128^i
\* over the bytes it consumed, and it is not negative.
C30_VarintIsLengthPrefix ==
    parser.iterations > 0 =>
        /\ parser.varint.result = VarintBits(parser.buffer, parser.varint.from, parser.varint.to)
        /\ 31 \notin parser.varint.result

\* the sum of the count column of a statistics result
RECURSIVE SumCounts(_)
SumCounts(rows) ==
    IF rows = {} THEN 0
    ELSE LET r == CHOOSE x \in rows : TRUE IN r.count + SumCounts(rows \ {r})

\* C24: in a /api/statistics response none of whose queries failed, the
\* by_fac_type, by_surf_type and by_district counts each add up to the
\* total_segments count, also when a reload commits during the request.
C24_StatisticsConsistent ==
    (stat.pc = "sent" /\ stat.failing = {}) =>
        \A key \in {"by_fac_type", "by_surf_type", "by_district"} :
            SumCounts(stat.results[key]) = SumCounts(stat.results["total_segments"])

\* C28: loadCSVData never stops the server, and without the CSV file it
\* starts no load: no client is checked out and road_segments is not touched.
C28_LoadNeverStopsServer ==
    /\ server = "up"
    /\ csvFile = 0 =>
          \A l \in Loaders : ld[l].kind = "server" => ld[l].pc \in {"start", "idle"}

====
